---- MODULE Spec2Model ----
(***************************************************************************)
(* Model of simple-tinder-scraper-es: the two session drivers              *)
(* (src/src/scraper.py TinderScraper.run, src/scraper_simple.py main),     *)
(* the two extraction pipelines, the two save implementations and the OCR  *)
(* verifier.  Python strings are TLC strings, Python lists are sequences,  *)
(* OCR text is a sequence of Unicode code points.                          *)
(***************************************************************************)
EXTENDS Integers, Sequences, FiniteSets, TLC

VARIABLES
    driver,              \* which implementation runs: "modular" (src/src) or "simple" (scraper_simple.py)
    file,                \* the profiles JSON file: [state, profiles]
    initial_file,        \* ghost: the file as it was before the first save
    save_log,            \* ghost: every call of save_profiles, <<[batch, ok]>>
    reported_total,      \* the "Total:" figure of the last successful save
    save_calls,          \* number of save_profiles calls made so far
    ocr_pc,              \* verify: "idle", "loop", "returned" or "raised"
    max_attempts,        \* verify's max_attempts argument
    ocr_attempt,         \* verify's loop index
    verification_status, \* verify's verification_status / is_verified
    ocr_verified,        \* verify's first result
    ocr_log,             \* ghost: what each OCR pass of this call saw
    screenshot_exists,   \* whether the screenshot file is on disk
    clean_screenshots,   \* output.clean_screenshots_after_verification
    pc,                  \* where the session driver is
    i,                   \* the loop index of `for i in range(1, num_profiles + 1)`
    profiles_buffer,     \* profiles_buffer / profiles
    last_save,           \* last_save
    last_profile_time,   \* last_profile_time (seconds)
    clock,               \* time.time() at its last reading (seconds)
    stats,               \* ScrapingStats counters
    like_probability,    \* scraping.like_probability, in quarters
    profile_data,        \* the pipeline's result: <<>> for None, <<record>> otherwise
    attempt,             \* the pipeline's `attempt` loop index
    pipe,                \* ghost: what happened in the current pipeline invocation
    iter,                \* ghost: what happened in the current loop iteration
    ended,               \* ghost: how the try block of the driver was left
    run_pc,              \* where the process (main) is
    browser,             \* the Chrome process: "not_started", "running" or "closed"
    browser_handle,      \* BrowserManager.driver is set / main()'s `driver` is bound
    pending_exit,        \* the exit or exception travelling through the finally block
    exit_status,         \* how the process ended
    quit_calls,          \* number of driver.quit() calls made
    run_log,             \* ghost: the steps taken so far
    cfg_file,            \* the configuration file: <<>> if unreadable, else <<dict>>
    cli_args,            \* command line overrides: [profiles], <<>> if not given
    config,              \* ConfigManager.config / scraper_simple's config dict
    params,              \* the parameters the core took: <<>> before it is built
    page_texts,          \* the text items the profile page yields, in page order
    categories,          \* config['categories']: category -> set of vocabulary items
    interests,           \* the interests read from the page
    details,             \* the classified part of the record: <<>> until built
    url_pc,              \* image discovery: "idle", "loop" or "done"
    discoverable,        \* the image URLs the profile has
    max_scrolls,         \* scraping.scroll_attempts / max_scrolls_sin_cambios
    urls_found,          \* urls_found / urls_encontradas
    scrolls_without_changes, \* scrolls_without_changes / scrolls_sin_cambios
    scan_log,            \* ghost: what each scan showed, <<[shown, raised]>>
    ov_fn,               \* overlay closing: the function called
    ov_pc,               \* "idle", "first", "second" or "done"
    ov_index,            \* the next target of the list being walked
    ov_log,              \* ghost: <<[clicked, after_click]>>
    mt_pc,               \* match overlay: "idle", "popups", "read_name" or "done"
    match_close_attempts,\* match_close_attempts of scrape_profile
    mt_streak,           \* ghost: match overlays closed in a row, no reload between
    mt_reloads,          \* ghost: page reloads issued by the escalation
    mt_passes,           \* ghost: times the pipeline went on to read the name
    nm_pc,               \* "idle", "name", "age", "restart" or "screenshot"
    selector_finds,      \* what each selector strategy finds on the page
    name,                \* name
    age                  \* age

storageVars == <<file, initial_file, save_log, reported_total, save_calls>>

ocrVars == <<ocr_pc, max_attempts, ocr_attempt, verification_status, ocr_verified,
             ocr_log, screenshot_exists, clean_screenshots>>

driverVars == <<pc, i, profiles_buffer, last_save, last_profile_time, clock, stats,
                like_probability, profile_data, attempt, pipe, iter, ended>>

runVars == <<run_pc, browser, browser_handle, pending_exit, exit_status, quit_calls,
             run_log>>

cfgVars == <<cfg_file, cli_args, config, params>>

classifyVars == <<page_texts, categories, interests, details>>

urlVars == <<url_pc, discoverable, max_scrolls, urls_found, scrolls_without_changes,
             scan_log>>

overlayVars == <<ov_fn, ov_pc, ov_index, ov_log>>

matchVars == <<mt_pc, match_close_attempts, mt_streak, mt_reloads, mt_passes>>

nameVars == <<nm_pc, selector_finds, name, age>>

pageVars == <<overlayVars, matchVars, nameVars>>

auxVars == <<runVars, cfgVars, classifyVars, pageVars, urlVars, pageVars>>

vars == <<driver, storageVars, ocrVars, driverVars, auxVars>>

Drivers == {"modular", "simple"}

(***************************************************************************)
(* Bounds of the model.                                                    *)
(***************************************************************************)
MaxBatch == 2
MaxSaves == 2
MaxOcrAttempts == 3
NumProfiles == 3
SaveInterval == 2
MaxInnerLoops == 2
MaxDraw == 1

(***************************************************************************)
(* Program constants.                                                      *)
(***************************************************************************)
MaxRetries == 3
TimeoutMinutes == 1
SimpleTimeoutSeconds == 60
PageLoadSeconds == 10

(***************************************************************************)
(* Session state: TinderScraper.__init__ and the locals of main().         *)
(***************************************************************************)
NoStats == [profiles_scraped |-> 0, likes |-> 0, nopes |-> 0, errors |-> 0]

\* interrupt_swallowed: a Ctrl+C was raised inside one of the pipeline's bare
\* `except:` blocks during the current invocation.
NoPipe == [negatives |-> 0, exceptions |-> 0, ocr_failed |-> FALSE,
           interrupt_swallowed |-> FALSE]

\* The ghost record of an iteration that starts with `errors` errors counted
\* and `buffered` profiles in the buffer.
NewIter(errors, buffered) ==
    [pipeline |-> 0, swipe_tries |-> 0, swipes |-> 0, swipe_raised |-> FALSE,
     draw |-> 0, action |-> "none",
     stall |-> FALSE, elapsed |-> 0, stall_navs |-> 0, recovery_navs |-> 0,
     flushes |-> 0, validation_failed |-> FALSE, extraction_failed |-> FALSE,
     errors_at_start |-> errors, buffer_at_start |-> buffered]

\* No process is being followed.
ProcessIdle ==
    /\ run_pc = "idle"
    /\ browser = "not_started"
    /\ browser_handle = FALSE
    /\ pending_exit = "none"
    /\ exit_status = "none"
    /\ quit_calls = 0
    /\ run_log = <<>>

\* No configuration has been loaded.
ConfigIdle ==
    /\ cfg_file = <<>>
    /\ cli_args = [profiles |-> <<>>]
    /\ config = <<>>
    /\ params = <<>>

RunIdle == ProcessIdle /\ ConfigIdle

\* No record is being classified.
ClassifyIdle ==
    /\ page_texts = <<>>
    /\ categories = <<>>
    /\ interests = <<>>
    /\ details = <<>>

\* No image discovery is running.
UrlIdle ==
    /\ url_pc = "idle"
    /\ discoverable = {}
    /\ max_scrolls = 0
    /\ urls_found = {}
    /\ scrolls_without_changes = 0
    /\ scan_log = <<>>

\* No overlay is being closed, no page prepared, no name read.
PageIdle ==
    /\ ov_fn = "none"
    /\ ov_pc = "idle"
    /\ ov_index = 0
    /\ ov_log = <<>>
    /\ mt_pc = "idle"
    /\ match_close_attempts = 0
    /\ mt_streak = 0
    /\ mt_reloads = 0
    /\ mt_passes = 0
    /\ nm_pc = "idle"
    /\ selector_finds = <<>>
    /\ name = <<>>
    /\ age = <<>>

DriverIdle ==
    /\ pc = "idle"
    /\ i = 0
    /\ profiles_buffer = <<>>
    /\ last_save = 0
    /\ last_profile_time = 0
    /\ clock = 0
    /\ stats = NoStats
    /\ like_probability = 0
    /\ profile_data = <<>>
    /\ attempt = 0
    /\ pipe = NoPipe
    /\ iter = NewIter(0, 0)
    /\ ended = "no"

(***************************************************************************)
(* Storage: ProfileSaver (utils.py) and save_profiles (scraper_simple.py). *)
(***************************************************************************)

\* Keys of a profile record whose value is a Python list.
ListKeys == {"imagenes", "otros"}

RECURSIVE JoinFrom(_, _)
JoinFrom(items, k) ==
    IF k > Len(items) THEN ""
    ELSE IF k = Len(items) THEN items[k]
    ELSE items[k] \o " | " \o JoinFrom(items, k + 1)

\* " | ".join(items)
PipeJoin(items) == JoinFrom(items, 1)

\* Python's None where a record holds it (a string no page text equals).
PyNone == "<None>"

\* A cleaning loop in which scraper_simple pipe-joins every list, the empty
\* one included.
CleanValueJoinsEveryList(drv, key, value) ==
    IF key \in ListKeys
    THEN IF value # <<>> \/ drv = "simple" THEN PipeJoin(value) ELSE "NA"
    ELSE IF drv = "modular" /\ value = PyNone THEN "NA" ELSE value

\* What the cleaning loop stores for one (key, value) pair: a list is
\* pipe-joined, an empty list becomes "NA"; ProfileSaver also turns None
\* into "NA", scraper_simple.save_profiles stores it as it is.
CleanValue(drv, key, value) ==
    IF key \in ListKeys
    THEN IF value # <<>> THEN PipeJoin(value) ELSE "NA"
    ELSE IF drv = "modular" /\ value = PyNone THEN "NA" ELSE value

CleanProfile(drv, profile) ==
    [key \in DOMAIN profile |-> CleanValue(drv, key, profile[key])]

CleanProfiles(drv, profiles) ==
    [k \in 1..Len(profiles) |-> CleanProfile(drv, profiles[k])]

MissingFile == [state |-> "missing", profiles |-> <<>>]
CorruptFile == [state |-> "corrupt", profiles |-> <<>>]
ListFile(ps) == [state |-> "list", profiles |-> ps]

\* The list the save starts from: [] unless the file holds a JSON list.
LoadExistingProfiles(f) ==
    IF f.state = "list" THEN f.profiles ELSE <<>>

\* A save that writes only the new batch over the file.
ExtendProfilesOverwrites(existing, cleaned) == cleaned

\* existing_profiles.extend(cleaned_profiles)
ExtendProfiles(existing, cleaned) == existing \o cleaned

\* How the file operations of one save end: all succeed; reading the
\* existing file raises something other than JSONDecodeError; opening the
\* file for writing raises; json.dump raises after the file was truncated.
IoOutcomes == {"ok", "read_fails", "open_fails", "partial_write"}

\* The file after save_profiles(batch) when its file operations end as `io`.
\* _load_existing_profiles turns a read error into [] and the save goes on;
\* in scraper_simple the read error ends the save.
FileAfterSave(f, batch, io) ==
    CASE io = "ok" ->
            ListFile(ExtendProfiles(LoadExistingProfiles(f), CleanProfiles(driver, batch)))
      [] io = "read_fails" ->
            IF driver = "modular"
            THEN ListFile(ExtendProfiles(<<>>, CleanProfiles(driver, batch)))
            ELSE f
      [] io = "open_fails" -> f
      [] OTHER -> CorruptFile

\* The save ran to its end (ProfileSaver: returned True).
SaveOk(drv, io) == io = "ok" \/ (drv = "modular" /\ io = "read_fails")

\* One call of save_profiles(batch).
SaveProfiles(batch, io) ==
    /\ file' = FileAfterSave(file, batch, io)
    /\ save_log' = Append(save_log, [batch |-> batch, ok |-> SaveOk(driver, io),
                                     io |-> io, before |-> file.state])
    /\ reported_total' =
          IF SaveOk(driver, io)
          THEN Len(FileAfterSave(file, batch, io).profiles)
          ELSE reported_total
    /\ save_calls' = save_calls + 1
    /\ UNCHANGED initial_file

\* get_profile_count()
GetProfileCount(f) == Len(LoadExistingProfiles(f))

StorageIdle ==
    /\ file = MissingFile
    /\ initial_file = MissingFile
    /\ save_log = <<>>
    /\ reported_total = 0
    /\ save_calls = 0

(***************************************************************************)
(* OCR verifier: OCRProcessor (ocr_processor.py) and                       *)
(* verificar_nombre_con_ocr (scraper_simple.py).                           *)
(***************************************************************************)

InRange(c, lo, hi) == lo <= c /\ c <= hi

\* The pattern without the period: [A-Za-zÀ-ÿ0-9]
HasMeaningfulTextNoPeriod(text) ==
    \E k \in 1..Len(text) :
        \/ InRange(text[k], 65, 90)
        \/ InRange(text[k], 97, 122)
        \/ InRange(text[k], 192, 255)
        \/ InRange(text[k], 48, 57)

\* re.search(r'[A-Za-zÀ-ÿ0-9\.]', text) on the text's code points.
HasMeaningfulText(text) ==
    \E k \in 1..Len(text) :
        \/ InRange(text[k], 65, 90)
        \/ InRange(text[k], 97, 122)
        \/ InRange(text[k], 192, 255)
        \/ InRange(text[k], 48, 57)
        \/ text[k] = 46

\* OCR output: nothing, " \n", "Ana", ".", "7", "é", "!", "-".
OcrTexts == {<<>>, <<32, 10>>, <<65, 110, 97>>, <<46>>, <<55>>, <<233>>, <<33>>, <<45>>}

BadgeResults == {"Yes", "No", "NA"}

\* What one OCR pass meets: the image cannot be read, the OCR engine raises,
\* or the image is decoded, OCR yields `text` and badge detection `badge`.
PassInputs ==
    {[kind |-> k, text |-> <<>>, badge |-> "NA"] : k \in {"unreadable", "ocr_error"}}
    \cup {[kind |-> "decoded", text |-> t, badge |-> b] : t \in OcrTexts, b \in BadgeResults}

\* extract_text_from_image / extract_name_and_age_from_image: has_text.
HasText(p) == p.kind = "decoded" /\ HasMeaningfulText(p.text)

\* ... and whether it hands back a decoded image.
ImageReturned(p) == p.kind = "decoded"

\* dict.get: the value stored under this very key, else the default.
DictGet(d, key, default) == IF key \in DOMAIN d THEN d[key] ELSE default

\* The option as the verifier reads it: OCRProcessor asks the dict it was
\* given for the key "output.clean_screenshots_after_verification" with
\* default True, scraper_simple indexes config['output'].
CleanOption(drv, clean) ==
    LET cfg == [output |-> [clean_screenshots_after_verification |-> clean]]
    IN IF drv = "modular"
       THEN DictGet(cfg, "output.clean_screenshots_after_verification", TRUE)
       ELSE cfg.output.clean_screenshots_after_verification

\* Badge detection run on every pass that decoded the image.
DetectsBadgeEveryPass(status, p) == ImageReturned(p)

\* if verification_status == "NA" and image is not None: detect the badge.
DetectsBadge(status, p) == status = "NA" /\ ImageReturned(p)

\* The screenshot file after the success path.
CleanupAfterSuccess(drv, clean, exists) ==
    IF CleanOption(drv, clean) THEN FALSE ELSE exists

\* The screenshot file after the exhausted-attempts path: OCRProcessor calls
\* _cleanup_image unconditionally, scraper_simple tests the option.
CleanupAfterFailure(drv, clean, exists) ==
    IF drv = "modular" THEN FALSE
    ELSE IF CleanOption(drv, clean) THEN FALSE ELSE exists

OcrIdle ==
    /\ ocr_pc = "idle"
    /\ max_attempts = 0
    /\ ocr_attempt = 0
    /\ verification_status = "NA"
    /\ ocr_verified = FALSE
    /\ ocr_log = <<>>
    /\ screenshot_exists = FALSE
    /\ clean_screenshots = FALSE

OcrInit ==
    /\ StorageIdle
    /\ DriverIdle
    /\ RunIdle
    /\ ClassifyIdle
    /\ UrlIdle
    /\ PageIdle
    /\ driver \in Drivers
    /\ ocr_pc = "loop"
    /\ max_attempts \in 0..MaxOcrAttempts
    /\ ocr_attempt = 0
    /\ verification_status = "NA"
    /\ ocr_verified = FALSE
    /\ ocr_log = <<>>
    /\ screenshot_exists = TRUE
    /\ clean_screenshots \in BOOLEAN

\* One iteration of `for attempt in range(max_attempts)`.
OcrPass ==
    /\ ocr_pc = "loop"
    /\ ocr_attempt < max_attempts
    /\ \E p \in PassInputs :
         LET detect == DetectsBadge(verification_status, p)
         IN /\ ocr_log' = Append(ocr_log, [kind |-> p.kind, text |-> p.text,
                                            badge |-> p.badge, detect_ran |-> detect])
            /\ IF driver = "simple" /\ p.kind = "ocr_error"
               THEN /\ ocr_pc' = "raised"
                    /\ UNCHANGED <<ocr_attempt, verification_status, ocr_verified,
                                   screenshot_exists>>
               ELSE /\ verification_status' =
                          IF detect THEN p.badge ELSE verification_status
                    /\ IF HasText(p)
                       THEN /\ ocr_verified' = TRUE
                            /\ ocr_pc' = "returned"
                            /\ screenshot_exists' =
                                  CleanupAfterSuccess(driver, clean_screenshots,
                                                      screenshot_exists)
                            /\ UNCHANGED ocr_attempt
                       ELSE /\ ocr_attempt' = ocr_attempt + 1
                            /\ UNCHANGED <<ocr_verified, ocr_pc, screenshot_exists>>
    /\ UNCHANGED <<driver, storageVars, driverVars, max_attempts, clean_screenshots>>
    /\ UNCHANGED auxVars

\* The code after the loop: all passes ran and none had text.
OcrExhausted ==
    /\ ocr_pc = "loop"
    /\ ocr_attempt >= max_attempts
    /\ ocr_verified' = FALSE
    /\ ocr_pc' = "returned"
    /\ screenshot_exists' =
          CleanupAfterFailure(driver, clean_screenshots, screenshot_exists)
    /\ UNCHANGED <<driver, storageVars, driverVars, max_attempts, ocr_attempt,
                   verification_status, ocr_log, clean_screenshots>>
    /\ UNCHANGED auxVars

OcrNext == OcrPass \/ OcrExhausted

OcrSpec == OcrInit /\ [][OcrNext]_vars

\* A letter, a digit or a period, as the pattern counts them: A-Z, a-z, the
\* Latin-1 range U+00C0..U+00FF, 0-9 and ".".
QualifyingChar(c) ==
    c \in (65..90) \cup (97..122) \cup (192..255) \cup (48..57) \cup {46}

PassDetects(entry) ==
    entry.kind = "decoded" /\ \E j \in 1..Len(entry.text) : QualifyingChar(entry.text[j])

C17_ScreenshotDeletedIffOptionEnabled ==
    ocr_pc = "returned" => (screenshot_exists <=> ~clean_screenshots)

\* The passes of this call that decoded the image and whose badge detection
\* gave Yes or No.
ResolvingPasses ==
    {k \in 1..Len(ocr_log) : ocr_log[k].kind = "decoded" /\ ocr_log[k].badge # "NA"}

DecodedPasses == {k \in 1..Len(ocr_log) : ocr_log[k].kind = "decoded"}

Earliest(passes) == CHOOSE k \in passes : \A j \in passes : k <= j

\* C20 (as stated): the status verify returns is the badge result of the
\* earliest pass that decoded the image, and no later pass runs the
\* detection again.
C20_StatusIsTheEarliestDecodedResult ==
    ocr_pc = "returned" =>
        IF DecodedPasses = {} THEN verification_status = "NA"
        ELSE /\ verification_status = ocr_log[Earliest(DecodedPasses)].badge
             /\ \A k \in 1..Len(ocr_log) :
                   k > Earliest(DecodedPasses) => ~ocr_log[k].detect_ran

\* C20 (amended): badge detection runs on a pass exactly when the pass
\* decoded the image and no earlier pass of the call got Yes or No from it;
\* the status is the result of the earliest detection that gave Yes or No,
\* and NA when none did.
C20_StatusIsTheEarliestResolvedResult ==
    /\ \A k \in 1..Len(ocr_log) :
          ocr_log[k].detect_ran <=>
              (ocr_log[k].kind = "decoded" /\ \A j \in ResolvingPasses : j >= k)
    /\ ocr_pc \in {"loop", "returned"} =>
          verification_status =
              IF ResolvingPasses = {} THEN "NA"
              ELSE ocr_log[Earliest(ResolvingPasses)].badge

\* A call of three passes: the first detection gives NA, the second No, and
\* the third pass, which would have found the badge, does not run it.
C20_Witness ==
    /\ ocr_pc = "returned"
    /\ Len(ocr_log) = 3
    /\ ocr_log[1].detect_ran /\ ocr_log[1].badge = "NA"
    /\ ocr_log[2].detect_ran /\ ocr_log[2].badge = "No"
    /\ ocr_log[3].kind = "decoded" /\ ocr_log[3].badge = "Yes" /\ ~ocr_log[3].detect_ran
    /\ verification_status = "No"

(***************************************************************************)
(* Specification SaveSpec: save_profiles called on arbitrary batches.      *)
(***************************************************************************)
SampleProfiles ==
    { [id |-> "Ana_1", nombre |-> "Ana", edad |-> "23",
       imagenes |-> <<"u1", "u2">>, otros |-> <<>>],
      [id |-> "Eva_2", nombre |-> "Eva", edad |-> PyNone,
       imagenes |-> <<"u3">>, otros |-> <<"x", "y">>] }

StoredBefore ==
    [id |-> "Old_0", nombre |-> "Old", edad |-> "30", imagenes |-> "u0", otros |-> "NA"]

RECURSIVE SeqsUpTo(_, _)
SeqsUpTo(S, n) ==
    IF n = 0 THEN {<<>>}
    ELSE LET shorter == SeqsUpTo(S, n - 1)
         IN shorter \cup {Append(s, x) : s \in shorter, x \in S}

Batches == SeqsUpTo(SampleProfiles, MaxBatch)

InitialFiles == {MissingFile, CorruptFile, ListFile(<<>>), ListFile(<<StoredBefore>>)}

SaveInit ==
    /\ OcrIdle
    /\ DriverIdle
    /\ RunIdle
    /\ ClassifyIdle
    /\ UrlIdle
    /\ PageIdle
    /\ driver \in Drivers
    /\ file \in InitialFiles
    /\ initial_file = file
    /\ save_log = <<>>
    /\ reported_total = 0
    /\ save_calls = 0

SaveCall ==
    /\ save_calls < MaxSaves
    /\ \E batch \in Batches, io \in IoOutcomes :
          \* A file that does not exist is not read (ProfileSaver), or is read
          \* right after it was created holding [] (scraper_simple).
          /\ io = "read_fails" => file.state # "missing"
          /\ SaveProfiles(batch, io)
    /\ UNCHANGED <<driver, ocrVars, driverVars>>
    /\ UNCHANGED auxVars

SaveNext == SaveCall

SaveSpec == SaveInit /\ [][SaveNext]_vars

RECURSIVE OkBatchesFrom(_, _)
\* The batches of the successful saves log[k..], concatenated in call order.
OkBatchesFrom(log, k) ==
    IF k > Len(log) THEN <<>>
    ELSE (IF log[k].ok THEN log[k].batch ELSE <<>>) \o OkBatchesFrom(log, k + 1)

AllSavesOk == \A k \in 1..Len(save_log) : save_log[k].ok

\* What one record looks like once stored, written out field by field.
StoredForm(drv, p) ==
    [id |-> p.id, nombre |-> p.nombre,
     edad |-> IF drv = "modular" /\ p.edad = PyNone THEN "NA" ELSE p.edad,
     imagenes |-> IF p.imagenes = <<>> THEN "NA" ELSE PipeJoin(p.imagenes),
     otros |-> IF p.otros = <<>> THEN "NA" ELSE PipeJoin(p.otros)]

\* Every save so far read and wrote the file without an error.
NoIoError == \A k \in 1..Len(save_log) : save_log[k].io = "ok"

\* C3: saving is cumulative. Starting from a stored list S, after any
\* sequence of saves that read and wrote the file without an error, the file
\* holds S followed by the cleaned records of every batch in call order, and
\* the total reported by the last save is the number stored before it plus
\* the size of its batch.
C3_SaveIsCumulative ==
    (initial_file.state = "list" /\ NoIoError) =>
        LET saved == OkBatchesFrom(save_log, 1)
        IN /\ file.state = "list"
           /\ Len(file.profiles) = Len(initial_file.profiles) + Len(saved)
           /\ \A k \in 1..Len(initial_file.profiles) :
                 file.profiles[k] = initial_file.profiles[k]
           /\ \A k \in 1..Len(saved) :
                 file.profiles[Len(initial_file.profiles) + k] = StoredForm(driver, saved[k])
           /\ save_log # <<>> =>
                 reported_total = Len(initial_file.profiles) + Len(saved)

\* Two non-empty batches saved one after the other onto a non-empty list.
C3_Witness ==
    /\ initial_file = ListFile(<<StoredBefore>>)
    /\ Len(save_log) = 2
    /\ AllSavesOk
    /\ save_log[1].batch # <<>>
    /\ save_log[2].batch # <<>>
    /\ save_log[1].batch # save_log[2].batch

\* C30: a save that finds the file unparsable or not holding a list, and
\* whose file operations succeed, leaves the file holding the cleaned batch
\* alone and reports success; a ProfileSaver save whose reading or writing
\* raised reports failure.
C30_SaveStartsFreshOrReportsFailure ==
    \A c \in 1..Len(save_log) :
        /\ (save_log[c].before = "corrupt" /\ save_log[c].io = "ok") =>
              /\ save_log[c].ok
              /\ c = Len(save_log) =>
                    file = ListFile(CleanProfiles(driver, save_log[c].batch))
        /\ (driver = "modular" /\ save_log[c].io # "ok") => ~save_log[c].ok

\* C27 (as stated): the two implementations flatten list fields differently,
\* one joining every list and the other storing "NA" for an empty one, so a
\* record with an empty list field is stored differently by the two.
C27_EmptyListStoredDifferently ==
    \A c \in 1..Len(save_log) : \A j \in 1..Len(save_log[c].batch) :
        LET p == save_log[c].batch[j]
        IN \A key \in ListKeys :
              p[key] = <<>> =>
                 CleanProfile("modular", p)[key] # CleanProfile("simple", p)[key]

\* C27 (amended): the two implementations store every list field alike, a
\* non-empty list pipe-joined and an empty one as "NA"; the records they
\* store differ exactly when a field that is not a list holds None, which
\* ProfileSaver stores as "NA" and scraper_simple as it is.  What the file
\* holds for a list field is what the other implementation would have stored.
C27_ListFieldsFlattenedAlike ==
    \A c \in 1..Len(save_log) : \A j \in 1..Len(save_log[c].batch) :
        LET p == save_log[c].batch[j]
            other == IF driver = "modular" THEN "simple" ELSE "modular"
        IN /\ \A key \in ListKeys :
                 /\ CleanProfile("modular", p)[key] = CleanProfile("simple", p)[key]
                 /\ CleanProfile(driver, p)[key] =
                       IF p[key] = <<>> THEN "NA" ELSE PipeJoin(p[key])
           /\ (CleanProfile("modular", p) # CleanProfile("simple", p)) <=>
                 (\E key \in (DOMAIN p) \ ListKeys : p[key] = PyNone)
           /\ (AllSavesOk /\ c = Len(save_log) /\ file.state = "list") =>
                 \A key \in ListKeys :
                    file.profiles[Len(file.profiles) - Len(save_log[c].batch) + j][key]
                       = CleanProfile(other, p)[key]

\* One successful save of a record with an empty list field and a record
\* with a None age.
C27_Witness ==
    /\ Len(save_log) = 1
    /\ save_log[1].ok
    /\ Len(save_log[1].batch) = 2
    /\ save_log[1].batch[1].otros = <<>>
    /\ save_log[1].batch[2].edad = PyNone
    /\ file.state = "list"
    /\ file.profiles[Len(file.profiles) - 1].otros = "NA"

(***************************************************************************)
(* Extraction pipelines: DataExtractor.extract_profile_data and            *)
(* scraper_simple.scrape_profile.                                          *)
(***************************************************************************)
\* What a profile page can show: a full profile, one without photos but
\* with other content, one whose name reads "NA", one with no name at all.
PageContents ==
    { [name |-> "Ana", images |-> <<"u1">>, otros |-> <<"x">>],
      [name |-> "Ana", images |-> <<>>, otros |-> <<"x">>],
      [name |-> "NA", images |-> <<"u1">>, otros |-> <<>>],
      [name |-> "", images |-> <<>>, otros |-> <<>>] }

RECURSIVE Tally(_)
\* The timestamp part of a profile id: later iterations get later stamps.
Tally(n) == IF n = 0 THEN "" ELSE Tally(n - 1) \o "I"

\* A step that is not run has no outcome of its own: after the step that ends
\* the attempt the remaining ones are written down as succeeding, and content
\* that is never read is written down as the full profile.
StepsNotRun(page) ==
    LET full == page.name = "Ana" /\ page.images # <<>>
    IN /\ page.raises => (page.prepare_ok /\ page.screenshot_ok /\ page.ocr_ok /\ full)
       /\ ~page.prepare_ok => (page.screenshot_ok /\ page.ocr_ok /\ full)
       /\ page.name = "" => (page.screenshot_ok /\ page.ocr_ok)
       /\ ~page.screenshot_ok => (page.ocr_ok /\ full)

\* What the page and the collaborators do during one attempt.
Pages ==
    { page \in
        { [raises |-> r, prepare_ok |-> pr, screenshot_ok |-> sh, ocr_ok |-> oc,
           name |-> c.name, images |-> c.images, otros |-> c.otros] :
          r \in BOOLEAN, pr \in BOOLEAN, sh \in BOOLEAN, oc \in BOOLEAN,
          c \in PageContents } :
      StepsNotRun(page) }

\* The profile record assembled by _extract_all_profile_data / scrape_profile.
MakeProfile(n, page) ==
    [id |-> page.name \o "_" \o Tally(n), nombre |-> page.name, edad |-> "23",
     imagenes |-> page.images, otros |-> page.otros]

\* How one attempt of extract_profile_data ends.
AttemptOutcome(page) ==
    CASE page.raises -> "exception"
      [] ~page.prepare_ok -> "prepare_failed"
      [] page.name = "" -> "no_name"
      [] ~page.screenshot_ok -> "no_screenshot"
      [] ~page.ocr_ok -> "ocr_failed"
      [] OTHER -> "done"

\* How one pass of scrape_profile's `while True` ends: without a name or a
\* screenshot the pass is repeated, a failed OCR verification is only
\* reported and the record is built all the same.
SimpleOutcome(page) ==
    CASE page.raises -> "exception"
      [] page.name = "" -> "no_name"
      [] ~page.screenshot_ok -> "no_screenshot"
      [] ~page.ocr_ok -> "done_unverified"
      [] OTHER -> "done"

\* A pipeline in which a missing name does not use up an attempt.
AttemptAfterKeepsOnNoName(n, outcome) == IF outcome = "no_name" THEN n ELSE n + 1

\* The loop index after an attempt that did not return: `continue`, or the
\* end of the except block.
AttemptAfter(n, outcome) == n + 1

\* A Ctrl+C raised while a popup or selector lookup runs inside
\* `try: ... except: continue` (_close_popups, _extract_basic_info,
\* cerrar_ventanas_emergentes): the bare except catches it as it catches any
\* BaseException, and the selector loop goes on with the next selector.
BareExceptAfter(swallowed, ctrl_c) == swallowed \/ ctrl_c

\* No pass of the current invocation has run yet: this one starts it.
FirstPass == attempt = 0 /\ pipe.negatives = 0

\* extract_profile_data, one attempt.
ExtractAttempt ==
    /\ driver = "modular"
    /\ pc = "extract"
    /\ attempt < MaxRetries
    /\ \E page \in Pages, ctrl_c \in BOOLEAN :
         LET outcome == AttemptOutcome(page)
             next == AttemptAfter(attempt, outcome)
         IN IF outcome = "done"
            THEN /\ profile_data' = <<MakeProfile(i, page)>>
                 /\ pc' = "validate"
                 /\ pipe' = [pipe EXCEPT !.ocr_failed = FALSE,
                                         !.interrupt_swallowed =
                                            BareExceptAfter(@, ctrl_c)]
                 /\ UNCHANGED attempt
            ELSE /\ attempt' = next
                 /\ pipe' = [pipe EXCEPT !.negatives = @ + 1,
                                         !.exceptions =
                                            IF outcome = "exception" THEN @ + 1 ELSE @,
                                         !.ocr_failed = outcome = "ocr_failed",
                                         !.interrupt_swallowed =
                                            BareExceptAfter(@, ctrl_c)]
                 /\ IF next >= MaxRetries
                    THEN /\ profile_data' = <<>>
                         /\ pc' = "validate"
                    ELSE UNCHANGED <<profile_data, pc>>
    /\ iter' = [iter EXCEPT !.pipeline = IF FirstPass THEN @ + 1 ELSE @]
    /\ UNCHANGED <<driver, storageVars, ocrVars, i, profiles_buffer, last_save,
                   last_profile_time, clock, stats, like_probability, ended>>
    /\ UNCHANGED auxVars

\* scrape_profile, one pass of the `while True` loop of the current attempt.
ScrapeProfilePass ==
    /\ driver = "simple"
    /\ pc = "extract"
    /\ attempt < MaxRetries
    /\ \E page \in Pages, ctrl_c \in BOOLEAN :
         LET outcome == SimpleOutcome(page)
         IN CASE outcome \in {"done", "done_unverified"} ->
                   /\ profile_data' = <<MakeProfile(i, page)>>
                   /\ pc' = "validate"
                   /\ pipe' = [pipe EXCEPT !.negatives =
                                              IF outcome = "done" THEN @ ELSE @ + 1,
                                           !.ocr_failed = outcome # "done",
                                           !.interrupt_swallowed =
                                              BareExceptAfter(@, ctrl_c)]
                   /\ UNCHANGED attempt
              [] outcome = "exception" ->
                   /\ attempt' = attempt + 1
                   /\ pipe' = [pipe EXCEPT !.negatives = @ + 1, !.exceptions = @ + 1,
                                           !.interrupt_swallowed =
                                              BareExceptAfter(@, ctrl_c)]
                   /\ IF attempt + 1 >= MaxRetries
                      THEN /\ profile_data' = <<>>
                           /\ pc' = "validate"
                      ELSE UNCHANGED <<profile_data, pc>>
              [] OTHER ->
                   /\ pipe.negatives - pipe.exceptions < MaxInnerLoops
                   /\ pipe' = [pipe EXCEPT !.negatives = @ + 1,
                                           !.interrupt_swallowed =
                                              BareExceptAfter(@, ctrl_c)]
                   /\ UNCHANGED <<attempt, profile_data, pc>>
    /\ iter' = [iter EXCEPT !.pipeline = IF FirstPass THEN @ + 1 ELSE @]
    /\ UNCHANGED <<driver, storageVars, ocrVars, i, profiles_buffer, last_save,
                   last_profile_time, clock, stats, like_probability, ended>>
    /\ UNCHANGED auxVars

(***************************************************************************)
(* Session drivers: TinderScraper.run and scraper_simple.main.             *)
(***************************************************************************)
Deltas == {30, 31}

\* A validation that looks at the name only.
ValidateProfileNameOnly(drv, p) == p.nombre \notin {"", "NA"}

\* _validate_profile, and the image test of main().
ValidateProfile(drv, p) ==
    IF drv = "modular"
    THEN p.imagenes # <<>> /\ p.nombre \notin {"", "NA"}
    ELSE p.imagenes # <<>>

TimeoutSeconds(drv) ==
    IF drv = "modular" THEN TimeoutMinutes * 60 ELSE SimpleTimeoutSeconds

\* A stall test that fires when the budget is just reached.
TimedOutAtBudget(drv, current_time, last) == current_time - last >= TimeoutSeconds(drv)

\* current_time - last_profile_time > timeout_seconds
TimedOut(drv, current_time, last) == current_time - last > TimeoutSeconds(drv)

\* The key sent for a draw: ARROW_RIGHT is "like", ARROW_LEFT is "nope".
\* TinderScraper likes when draw < p; main() rejects when draw > p.
SwipeAction(drv, draw, p) ==
    IF drv = "modular"
    THEN IF draw < p THEN "like" ELSE "nope"
    ELSE IF draw > p THEN "nope" ELSE "like"

\* A driver that goes on to the pipeline after stall recovery.
PcAfterStallGoesOn == "extract"

\* `continue` after stall recovery.
PcAfterStall == "loop_head"

\* A driver that swipes after the validation-failure recovery.
PcAfterRecoverySwipes == "swipe"

\* `continue` after the validation-failure recovery navigation.
PcAfterRecovery == "loop_head"

\* A driver that does not count a failed extraction.
ErrorsAfterFailedExtractionForgets(drv, errors) == errors

\* stats.add_error() on a None result; scraper_simple keeps no error count.
ErrorsAfterFailedExtraction(drv, errors) ==
    IF drv = "modular" THEN errors + 1 ELSE errors

\* Where control goes when an exception leaves the try block's loop.
PcOnException(drv) == IF drv = "modular" THEN "except_exception" ELSE "finally"

PcOnInterrupt(drv) == IF drv = "modular" THEN "except_interrupt" ELSE "finally"

\* What the driver sees of a save: it worked, or it raised inside save_profiles.
DriverIoOutcomes == {"ok", "open_fails"}

Unsaved == SubSeq(profiles_buffer, last_save + 1, Len(profiles_buffer))

\* A flush test that waits until the interval is exceeded.
FlushDueAboveInterval(buffered, marker, interval) == buffered - marker > interval

\* len(self.profiles_buffer) - self.last_save >= self.save_interval
FlushDue(buffered, marker, interval) == buffered - marker >= interval

\* A save that moves the handed records out of the buffer.
BufferAfterSaveTransfers(buffered, marker) == SubSeq(buffered, 1, marker)

\* The buffer after a save: profiles_buffer[last_save:] builds a new list for
\* storage, and neither driver deletes from or assigns to the buffer itself.
BufferAfterSave(buffered, marker) == buffered

\* A marker that advances whatever storage reports.
LastSaveAfterAlwaysAdvances(drv, ok, marker, buffered) == buffered

\* last_save after the periodic save: TinderScraper advances it only when
\* save_profiles returned True, main() advances it after the call.
LastSaveAfter(drv, ok, marker, buffered) ==
    IF drv = "simple" \/ ok THEN buffered ELSE marker

Init ==
    /\ OcrIdle
    /\ RunIdle
    /\ ClassifyIdle
    /\ UrlIdle
    /\ PageIdle
    /\ driver \in Drivers
    \* The output file of an earlier session; SaveSpec covers the other files.
    /\ file = ListFile(<<StoredBefore>>)
    /\ initial_file = file
    /\ save_log = <<>>
    /\ reported_total = 0
    /\ save_calls = 0
    /\ pc = "loop_head"
    /\ i = 0
    /\ profiles_buffer = <<>>
    /\ last_save = 0
    /\ last_profile_time = 0
    \* TinderScraper reads the time in __init__, before setup and login;
    \* main() reads it right before the loop.
    /\ clock \in IF driver = "modular" THEN {0, 31} ELSE {0}
    /\ stats = NoStats
    /\ like_probability \in {0, 1}
    /\ profile_data = <<>>
    /\ attempt = 0
    /\ pipe = NoPipe
    /\ iter = NewIter(0, 0)
    /\ ended = "no"

\* The top of the for loop and the stall test of the iteration it starts.
StartIteration ==
    /\ pc = "loop_head"
    /\ i < NumProfiles
    /\ i' = i + 1
    /\ \E d \in Deltas :
         LET current_time == clock + d
             stalled == TimedOut(driver, current_time, last_profile_time)
         IN /\ clock' = current_time
            /\ iter' = [NewIter(stats.errors, Len(profiles_buffer)) EXCEPT
                          !.stall = stalled,
                          !.elapsed = current_time - last_profile_time]
            /\ pc' = IF stalled THEN "stall" ELSE "extract"
    /\ attempt' = 0
    /\ pipe' = NoPipe
    /\ profile_data' = <<>>
    /\ UNCHANGED <<driver, storageVars, ocrVars, profiles_buffer, last_save,
                   last_profile_time, stats, like_probability, ended>>
    /\ UNCHANGED auxVars

\* The loop has run num_profiles times.
LoopExit ==
    /\ pc = "loop_head"
    /\ i >= NumProfiles
    /\ pc' = IF driver = "modular" THEN "final_save" ELSE "finally"
    /\ ended' = IF driver = "modular" THEN ended ELSE "normal"
    /\ UNCHANGED <<driver, storageVars, ocrVars, i, profiles_buffer, last_save,
                   last_profile_time, clock, stats, like_probability, profile_data,
                   attempt, pipe, iter>>
    /\ UNCHANGED auxVars

\* Stall recovery: navigate to the recommendations page, wait, reset the timer.
StallRecovery ==
    /\ pc = "stall"
    /\ iter' = [iter EXCEPT !.stall_navs = @ + 1, !.elapsed = 0]
    /\ \E nav_ok \in BOOLEAN :
         IF nav_ok
         THEN /\ clock' = clock + PageLoadSeconds
              /\ last_profile_time' = clock + PageLoadSeconds
              /\ pc' = PcAfterStall
              /\ UNCHANGED ended
         ELSE /\ pc' = PcOnException(driver)
              /\ ended' = "exception"
              /\ UNCHANGED <<clock, last_profile_time>>
    /\ UNCHANGED <<driver, storageVars, ocrVars, i, profiles_buffer, last_save, stats,
                   like_probability, profile_data, attempt, pipe>>
    /\ UNCHANGED auxVars

\* The driver's handling of the pipeline's result.
HandleResult ==
    /\ pc = "validate"
    /\ IF profile_data = <<>>
       THEN /\ stats' = [stats EXCEPT !.errors = ErrorsAfterFailedExtraction(driver, @)]
            /\ iter' = [iter EXCEPT !.extraction_failed = TRUE, !.elapsed = 0]
            /\ pc' = "swipe"
            /\ UNCHANGED <<profiles_buffer, last_profile_time, profile_data>>
       ELSE IF ValidateProfile(driver, profile_data[1])
            THEN /\ profiles_buffer' = Append(profiles_buffer, profile_data[1])
                 /\ stats' = IF driver = "modular"
                             THEN [stats EXCEPT !.profiles_scraped = @ + 1]
                             ELSE stats
                 /\ last_profile_time' = clock
                 /\ pc' = "swipe"
                 /\ iter' = [iter EXCEPT !.elapsed = 0]
                 /\ profile_data' = <<>>
            ELSE /\ iter' = [iter EXCEPT !.validation_failed = TRUE, !.elapsed = 0]
                 /\ pc' = "recover"
                 /\ UNCHANGED <<profiles_buffer, stats, last_profile_time, profile_data>>
    /\ attempt' = 0
    /\ pipe' = NoPipe
    /\ UNCHANGED <<driver, storageVars, ocrVars, i, last_save, clock, like_probability,
                   ended>>
    /\ UNCHANGED auxVars

\* The recovery navigation after a validation failure.
RecoveryNavigation ==
    /\ pc = "recover"
    /\ iter' = [iter EXCEPT !.recovery_navs = @ + 1]
    /\ \E nav_ok \in BOOLEAN :
         IF nav_ok
         THEN /\ pc' = PcAfterRecovery
              /\ UNCHANGED ended
         ELSE /\ pc' = PcOnException(driver)
              /\ ended' = "exception"
    /\ profile_data' = <<>>
    /\ UNCHANGED <<driver, storageVars, ocrVars, i, profiles_buffer, last_save,
                   last_profile_time, clock, stats, like_probability, attempt, pipe>>
    /\ UNCHANGED auxVars

\* _perform_swipe_action / the like-nope block of main().
Swipe ==
    /\ pc = "swipe"
    /\ \E draw \in 0..MaxDraw, sent \in BOOLEAN :
         LET action == SwipeAction(driver, draw, like_probability)
         IN /\ iter' = [iter EXCEPT !.swipe_tries = @ + 1,
                                    !.swipes = IF sent THEN @ + 1 ELSE @,
                                    !.swipe_raised = ~sent,
                                    !.draw = draw,
                                    !.action = action]
            /\ stats' =
                 IF sent
                 THEN [stats EXCEPT
                         !.likes = IF action = "like" THEN @ + 1 ELSE @,
                         !.nopes = IF action = "nope" THEN @ + 1 ELSE @,
                         !.profiles_scraped = IF driver = "simple" THEN @ + 1 ELSE @]
                 ELSE [stats EXCEPT
                         !.errors = IF driver = "modular" THEN @ + 1 ELSE @]
    /\ pc' = "save_check"
    /\ UNCHANGED <<driver, storageVars, ocrVars, i, profiles_buffer, last_save,
                   last_profile_time, clock, like_probability, profile_data, attempt,
                   pipe, ended>>
    /\ UNCHANGED auxVars

\* _save_if_needed / the periodic save of main(), then on to the next iteration.
SaveIfNeeded ==
    /\ pc = "save_check"
    /\ IF FlushDue(Len(profiles_buffer), last_save, SaveInterval)
       THEN \E io \in DriverIoOutcomes :
              /\ SaveProfiles(Unsaved, io)
              /\ profiles_buffer' = BufferAfterSave(profiles_buffer, last_save)
              /\ last_save' = LastSaveAfter(driver, SaveOk(driver, io), last_save,
                                            Len(profiles_buffer))
              /\ iter' = [iter EXCEPT !.flushes = @ + 1, !.draw = 0, !.action = "none"]
       ELSE /\ iter' = [iter EXCEPT !.draw = 0, !.action = "none"]
            /\ UNCHANGED <<storageVars, profiles_buffer, last_save>>
    /\ pc' = "loop_head"
    /\ UNCHANGED <<driver, ocrVars, i, last_profile_time, clock, stats,
                   like_probability, profile_data, attempt, pipe, ended>>
    /\ UNCHANGED auxVars

\* Ctrl+C while the try block runs.
KeyboardInterrupt ==
    /\ pc \in {"loop_head", "stall", "extract", "validate", "recover", "swipe",
               "save_check", "final_save", "final_stats"}
    /\ pc' = PcOnInterrupt(driver)
    /\ ended' = "interrupt"
    /\ UNCHANGED <<driver, storageVars, ocrVars, i, profiles_buffer, last_save,
                   last_profile_time, clock, stats, like_probability, profile_data,
                   attempt, pipe, iter>>
    /\ UNCHANGED auxVars

\* _save_remaining_profiles: hands buffer[last_save:] to storage, if any;
\* last_save stays as it is.
SaveRemaining ==
    IF Unsaved # <<>>
    THEN /\ \E io \in DriverIoOutcomes : SaveProfiles(Unsaved, io)
         /\ profiles_buffer' = BufferAfterSave(profiles_buffer, last_save)
    ELSE UNCHANGED <<storageVars, profiles_buffer>>

\* TinderScraper.run after the loop: the final save ...
FinalSave ==
    /\ driver = "modular"
    /\ pc = "final_save"
    /\ SaveRemaining
    /\ pc' = "final_stats"
    /\ UNCHANGED <<driver, ocrVars, i, last_save, last_profile_time,
                   clock, stats, like_probability, profile_data, attempt, pipe, iter,
                   ended>>
    /\ UNCHANGED auxVars

\* ... and the final statistics, after which run() returns.
FinalStatistics ==
    /\ driver = "modular"
    /\ pc = "final_stats"
    /\ pc' = "returned"
    /\ ended' = "normal"
    /\ UNCHANGED <<driver, storageVars, ocrVars, i, profiles_buffer, last_save,
                   last_profile_time, clock, stats, like_probability, profile_data,
                   attempt, pipe, iter>>
    /\ UNCHANGED auxVars

\* The two except blocks of TinderScraper.run.
ExceptHandler ==
    /\ driver = "modular"
    /\ pc \in {"except_interrupt", "except_exception"}
    /\ SaveRemaining
    /\ pc' = "returned"
    /\ UNCHANGED <<driver, ocrVars, i, last_save, last_profile_time,
                   clock, stats, like_probability, profile_data, attempt, pipe, iter,
                   ended>>
    /\ UNCHANGED auxVars

\* The finally block of main(): save what is left; last_save stays as it is.
Finally ==
    /\ driver = "simple"
    /\ pc = "finally"
    /\ SaveRemaining
    /\ pc' = "returned"
    /\ UNCHANGED <<driver, ocrVars, i, last_save, last_profile_time,
                   clock, stats, like_probability, profile_data, attempt, pipe, iter,
                   ended>>
    /\ UNCHANGED auxVars

Next ==
    \/ StartIteration
    \/ LoopExit
    \/ StallRecovery
    \/ ExtractAttempt
    \/ ScrapeProfilePass
    \/ HandleResult
    \/ RecoveryNavigation
    \/ Swipe
    \/ SaveIfNeeded
    \/ KeyboardInterrupt
    \/ FinalSave
    \/ FinalStatistics
    \/ ExceptHandler
    \/ Finally

Spec == Init /\ [][Next]_vars

(***************************************************************************)
(* Properties of the session drivers and the pipelines.                    *)
(***************************************************************************)

\* C1: every buffered record has at least one image and a non-empty name;
\* a record that fails validation is dropped, the pipeline is not run again
\* in that iteration, and one recovery navigation is issued for it.
C1_OnlyValidProfilesBuffered ==
    /\ \A k \in 1..Len(profiles_buffer) :
          /\ profiles_buffer[k].imagenes # <<>>
          /\ profiles_buffer[k].nombre # ""
    /\ Len(profiles_buffer) <= iter.buffer_at_start + 1
    /\ iter.recovery_navs <= 1
    /\ iter.validation_failed =>
          /\ Len(profiles_buffer) = iter.buffer_at_start
          /\ iter.pipeline = 1
          /\ (pc # "recover" /\ ended # "interrupt") => iter.recovery_navs = 1
    /\ ~iter.validation_failed => iter.recovery_navs = 0

\* A record with other content but no image has just been dropped, with a
\* profile from an earlier iteration in the buffer.
C1_Witness ==
    /\ pc = "recover"
    /\ iter.validation_failed
    /\ profile_data # <<>>
    /\ profile_data[1].imagenes = <<>>
    /\ profile_data[1].otros # <<>>
    /\ Len(profiles_buffer) >= 1

\* Some save call was handed the record.
HandedToStorage(p) ==
    \E k \in 1..Len(save_log) :
        \E j \in 1..Len(save_log[k].batch) : save_log[k].batch[j] = p

RECURSIVE AllBatchesFrom(_, _)
AllBatchesFrom(log, k) ==
    IF k > Len(log) THEN <<>> ELSE log[k].batch \o AllBatchesFrom(log, k + 1)

\* C2: when the driver returns, every buffered record has been handed to
\* storage, and if every storage call succeeded each record was handed over
\* exactly once: the batches, in call order, add up to the buffer.
C2_FlushedExactlyOnce ==
    pc = "returned" =>
        /\ \A k \in 1..Len(profiles_buffer) : HandedToStorage(profiles_buffer[k])
        /\ AllSavesOk => AllBatchesFrom(save_log, 1) = profiles_buffer

IterationOver == pc = "loop_head" /\ i >= 1

\* C6 as stated: every iteration sends exactly one accept/reject key, so a
\* full run with like_probability 0 ends with num_profiles rejects and no
\* accept.
C6_OneSwipeInEveryIteration ==
    /\ IterationOver => iter.swipes = 1
    /\ (pc = "returned" /\ ended = "normal" /\ like_probability = 0) =>
          (stats.nopes = NumProfiles /\ stats.likes = 0)

\* C6 as amended: an iteration tries the swipe once if it gets as far as
\* the swipe step and not at all if stall recovery or a validation failure
\* cut it short; the keys sent over a run are at most one per iteration,
\* and with like_probability 0 TinderScraper sends no accept.
C6_SwipeUnlessIterationCutShort ==
    /\ iter.swipe_tries <= 1
    /\ iter.swipes <= iter.swipe_tries
    /\ (pc \in {"save_check", "loop_head"} /\ i >= 1) =>
          iter.swipe_tries = IF iter.stall \/ iter.validation_failed THEN 0 ELSE 1
    /\ (iter.stall \/ iter.validation_failed) => iter.swipe_tries = 0
    /\ stats.likes + stats.nopes <= i
    /\ i <= NumProfiles
    /\ (driver = "modular" /\ like_probability = 0) => stats.likes = 0

\* A full TinderScraper run with like_probability 0 in which one iteration
\* failed validation: one reject fewer than iterations, no accept.
C6_Witness ==
    /\ driver = "modular"
    /\ pc = "returned"
    /\ ended = "normal"
    /\ like_probability = 0
    /\ i = NumProfiles
    /\ stats.errors = 0
    /\ stats.likes = 0
    /\ stats.nopes = NumProfiles - 1
    /\ Len(profiles_buffer) = NumProfiles - 1

\* C7 as stated: an iteration of TinderScraper.run whose extraction failed
\* raises the error count by exactly one and buffers nothing.
C7_FailedExtractionCountsOneError ==
    (driver = "modular" /\ iter.extraction_failed /\ IterationOver) =>
        /\ stats.errors = iter.errors_at_start + 1
        /\ Len(profiles_buffer) = iter.buffer_at_start

\* C7 as amended: the failed extraction adds one error, a swipe that raises
\* in the same iteration adds one more; nothing is buffered and no
\* exception ends the session in that iteration.
C7_FailedExtractionCountedOnce ==
    (driver = "modular" /\ iter.extraction_failed) =>
        /\ stats.errors =
              iter.errors_at_start + 1 + (IF iter.swipe_raised THEN 1 ELSE 0)
        /\ Len(profiles_buffer) = iter.buffer_at_start
        /\ ended # "exception"
        /\ pc \notin {"recover", "stall", "except_exception"}

\* The second iteration failed to extract and its swipe raised as well; the
\* loop is about to start the third.
C7_Witness ==
    /\ driver = "modular"
    /\ IterationOver
    /\ i = 2
    /\ iter.extraction_failed
    /\ iter.swipe_raised
    /\ stats.errors = iter.errors_at_start + 2
    /\ Len(profiles_buffer) = 1
    /\ ended = "no"

\* C8 as stated: every iteration invokes the pipeline exactly once and
\* sends at most one key.
C8_OnePipelineRunInEveryIteration ==
    IterationOver => (iter.pipeline = 1 /\ iter.swipes <= 1)

\* C8 as amended: an iteration invokes the pipeline at most once, exactly
\* once unless stall recovery skipped it, and sends at most one key; no more
\* than num_profiles iterations are started.
C8_AtMostOnePipelineRun ==
    /\ i <= NumProfiles
    /\ iter.pipeline <= 1
    /\ iter.swipes <= 1
    /\ iter.stall => iter.pipeline = 0
    /\ pc \in {"validate", "recover", "swipe", "save_check"} => iter.pipeline = 1
    /\ IterationOver => iter.pipeline = IF iter.stall THEN 0 ELSE 1

\* An iteration that stall recovery skipped is over: no pipeline run in it.
C8_Witness ==
    /\ IterationOver
    /\ iter.stall
    /\ iter.stall_navs = 1
    /\ iter.pipeline = 0
    /\ ended = "no"

\* C9: in both drivers the key sent is "like" exactly when the draw is
\* below the like probability, and "nope" otherwise.
C9_LikeIffDrawBelowProbability ==
    (pc = "save_check" /\ iter.swipes = 1) =>
        /\ iter.action \in {"like", "nope"}
        /\ iter.action = "like" <=> iter.draw < like_probability

HandlerPcs == {"except_interrupt", "finally", "returned"}

\* C11: a Ctrl+C raised while the loop runs, the pipeline's popup-closing
\* and selector steps included, stops the loop and leads to the handler that
\* flushes and summarizes; the loop never carries on after it.
C11_InterruptStopsTheLoop ==
    /\ pipe.interrupt_swallowed => (pc \in HandlerPcs /\ ended = "interrupt")
    /\ ended = "interrupt" => pc \in HandlerPcs

\* C12: an exception other than Ctrl+C raised during an iteration is counted
\* as an error and the loop goes on: no exception ends the session, and
\* unless interrupted the loop is left only after num_profiles iterations.
C12_ExceptionsNeverEndTheSession ==
    /\ ended # "exception"
    /\ (pc \in {"final_save", "final_stats", "except_exception"} \cup HandlerPcs
          /\ ended # "interrupt") => i = NumProfiles
    /\ iter.swipe_raised => stats.errors >= iter.errors_at_start + 1

\* C19: the pipeline hands a record to the session only from an attempt whose
\* OCR verification succeeded: an attempt whose verification failed never
\* goes on to extract the details and build the record.
C19_RecordOnlyFromVerifiedAttempt ==
    (pc = "validate" /\ profile_data # <<>>) => ~pipe.ocr_failed

\* C21: once the stall recovery of an iteration has run, the stall timer
\* reads the current time and the session has not been ended by an
\* exception, whether the recovery navigation succeeded or raised.
C21_StallTimerResetWhateverTheNavigation ==
    iter.stall_navs >= 1 => (last_profile_time = clock /\ ended # "exception")

\* The flush check of an iteration.
FlushCheckStep == pc = "save_check" /\ pc' = "loop_head"

LastCall == save_log'[Len(save_log')]

\* C22 (as stated): at a flush check that finds save_interval or more
\* unsaved records, the slice buffer[last_save:] is handed to storage and
\* the marker advances to the buffer length.
C22_FlushAdvancesTheMarker ==
    [][(FlushCheckStep /\ Len(profiles_buffer) - last_save >= SaveInterval) =>
          /\ Len(save_log') = Len(save_log) + 1
          /\ LastCall.batch = SubSeq(profiles_buffer, last_save + 1, Len(profiles_buffer))
          /\ last_save' = Len(profiles_buffer)]_vars

\* C22 (amended): such a flush check hands exactly buffer[last_save:] to
\* storage, once; the marker advances to the buffer length if storage
\* reported success (in main(): whatever storage did) and otherwise stays; a
\* flush check that finds fewer unsaved records calls nothing and leaves the
\* marker.  While every save succeeded, between iterations fewer than
\* save_interval records are unsaved.
C22_FlushHandsOverTheUnsavedSlice ==
    /\ [][FlushCheckStep =>
            IF Len(profiles_buffer) - last_save >= SaveInterval
            THEN /\ Len(save_log') = Len(save_log) + 1
                 /\ LastCall.batch =
                       SubSeq(profiles_buffer, last_save + 1, Len(profiles_buffer))
                 /\ last_save' = IF driver = "simple" \/ LastCall.ok
                                 THEN Len(profiles_buffer)
                                 ELSE last_save
            ELSE save_log' = save_log /\ last_save' = last_save]_vars
    /\ []((pc = "loop_head" /\ AllSavesOk) =>
            Len(profiles_buffer) - last_save < SaveInterval)

\* An iteration whose flush check handed two records to storage.
C22_Witness ==
    /\ pc = "loop_head"
    /\ iter.flushes = 1
    /\ Len(profiles_buffer) = SaveInterval
    /\ last_save = Len(profiles_buffer)
    /\ Len(save_log) = 1
    /\ save_log[1].ok
    /\ save_log[1].batch = profiles_buffer

\* A step that calls save_profiles.
SaveStep == Len(save_log') = Len(save_log) + 1

\* C26 (as stated): a step that hands buffer[last_save:] to storage leaves
\* only the records before last_save in the buffer.
C26_FlushedRecordsLeaveTheBuffer ==
    [][SaveStep => profiles_buffer' = SubSeq(profiles_buffer, 1, last_save)]_vars

\* C26 (amended): a step that hands buffer[last_save:] to storage leaves the
\* buffer as it was, handed records included; no step removes or changes a
\* buffered record, and every batch storage was given is still in the buffer,
\* record for record.
C26_FlushedRecordsStayBuffered ==
    /\ [][/\ SaveStep =>
               /\ LastCall.batch =
                     SubSeq(profiles_buffer, last_save + 1, Len(profiles_buffer))
               /\ profiles_buffer' = profiles_buffer
           /\ Len(profiles_buffer') >= Len(profiles_buffer)
           /\ \A k \in 1..Len(profiles_buffer) :
                 profiles_buffer'[k] = profiles_buffer[k]]_vars
    /\ [](\A c \in 1..Len(save_log) :
            \E m \in 0..(Len(profiles_buffer) - Len(save_log[c].batch)) :
               save_log[c].batch =
                  SubSeq(profiles_buffer, m + 1, m + Len(save_log[c].batch)))

\* A finished session whose periodic and final save both succeeded: the
\* buffer still holds the records of both, in the order they were handed over.
C26_Witness ==
    /\ pc = "returned"
    /\ Len(save_log) = 2
    /\ AllSavesOk
    /\ Len(save_log[1].batch) = SaveInterval
    /\ save_log[2].batch # <<>>
    /\ profiles_buffer = save_log[1].batch \o save_log[2].batch

\* C29: in TinderScraper the marker stays within 0..len(profiles_buffer);
\* the buffer changes only by one record appended at its end; the marker
\* changes only on a save that storage reported as successful, to the buffer
\* length; a save that failed leaves it, and the records of a failed save
\* open the slice handed to storage by the next save.
C29_MarkerAdvancesOnlyOnSuccess ==
    /\ [](driver = "modular" => (0 <= last_save /\ last_save <= Len(profiles_buffer)))
    /\ [][driver = "modular" =>
            /\ \/ profiles_buffer' = profiles_buffer
               \/ /\ Len(profiles_buffer') = Len(profiles_buffer) + 1
                  /\ SubSeq(profiles_buffer', 1, Len(profiles_buffer)) = profiles_buffer
            /\ last_save' # last_save =>
                  /\ SaveStep
                  /\ LastCall.ok
                  /\ last_save' = Len(profiles_buffer)
                  /\ last_save' > last_save
            /\ (SaveStep /\ ~LastCall.ok) => last_save' = last_save]_vars
    /\ [](driver = "modular" =>
            \A c \in 1..(Len(save_log) - 1) :
               ~save_log[c].ok =>
                  /\ Len(save_log[c + 1].batch) >= Len(save_log[c].batch)
                  /\ SubSeq(save_log[c + 1].batch, 1, Len(save_log[c].batch))
                        = save_log[c].batch)

\* TinderScraper after a periodic save that failed and a second one, an
\* iteration later, that succeeded on the same records and one more.
C29_Witness ==
    /\ driver = "modular"
    /\ pc = "loop_head"
    /\ Len(save_log) = 2
    /\ ~save_log[1].ok
    /\ save_log[2].ok
    /\ Len(save_log[1].batch) = SaveInterval
    /\ save_log[2].batch = profiles_buffer
    /\ SubSeq(save_log[2].batch, 1, SaveInterval) = save_log[1].batch
    /\ last_save = Len(profiles_buffer)

\* C28: a session that no Ctrl+C interrupted runs num_profiles iterations
\* of its loop, stall and validation-failure iterations included; at any time
\* the buffer holds at most as many records as iterations were started, and
\* at most num_profiles iterations are started.
C28_UninterruptedLoopRunsAllIterations ==
    /\ Len(profiles_buffer) <= i
    /\ i <= NumProfiles
    /\ (pc = "returned" /\ ended # "interrupt") => i = NumProfiles

(***************************************************************************)
(* Process lifecycle: main() of src/main.py around TinderScraper.setup,    *)
(* run and cleanup, and main() of scraper_simple.py.                       *)
(***************************************************************************)
\* A section of a configuration dict; a key whose value is <<>> is absent.
Section(np, mr) ==
    [k \in {key \in {"num_profiles", "max_retries"} :
               (key = "num_profiles" /\ np # <<>>) \/ (key = "max_retries" /\ mr # <<>>)} |->
        IF k = "num_profiles" THEN np[1] ELSE mr[1]]

\* ConfigManager._get_default_config, the keys followed here.
DefaultConfig == [scraping |-> Section(<<10>>, <<3>>)]

\* Configuration files: unreadable, without a scraping section, or with a
\* scraping section that has each key absent, valid or (num_profiles) out of
\* range.
ConfigFiles ==
    {<<>>, <<[other |-> Section(<<>>, <<>>)]>>}
    \cup {<<[scraping |-> Section(np, mr)]>> :
            np \in {<<>>, <<7>>, <<2000>>}, mr \in {<<>>, <<5>>}}

CliArgs == {[profiles |-> pr] : pr \in {<<>>, <<50>>}}

\* _load_config: the file's dict, or the defaults if it cannot be read.
LoadConfig(f) == IF f = <<>> THEN DefaultConfig ELSE f[1]

\* dict[key] = value on one level of the configuration.
SetKey(d, key, value) ==
    [k \in DOMAIN d \cup {key} |-> IF k = key THEN value ELSE d[k]]

\* _validate_config: a missing scraping section is taken from the defaults,
\* an out-of-range num_profiles is reset to its default, a missing key is
\* left missing.
ValidateConfig(c) ==
    LET withSection == IF "scraping" \in DOMAIN c THEN c
                       ELSE SetKey(c, "scraping", DefaultConfig.scraping)
        sc == withSection.scraping
    IN IF "num_profiles" \in DOMAIN sc /\ ~(1 <= sc.num_profiles /\ sc.num_profiles <= 1000)
       THEN SetKey(withSection, "scraping",
                   SetKey(sc, "num_profiles", DefaultConfig.scraping.num_profiles))
       ELSE withSection

\* apply_cli_overrides / the overrides of scraper_simple.main: --profiles.
ApplyCliOverrides(c, args) ==
    IF args.profiles # <<>>
    THEN SetKey(c, "scraping", SetKey(c.scraping, "num_profiles", args.profiles[1]))
    ELSE c

\* ConfigManager.get: the value at the dot path section.key, else the default.
ConfigGet(c, section, key, default) ==
    IF section \in DOMAIN c /\ key \in DOMAIN c[section] THEN c[section][key] ELSE default

\* What TinderScraper.__init__ and DataExtractor read from the dict that
\* main() hands over (config_manager.get_full_config(), a plain dict).
CoreParams(full_config) ==
    [num_profiles |-> DictGet(full_config, "scraping.num_profiles", 10),
     max_retries |-> DictGet(full_config, "scraping.max_retries", 3)]

\* What scraper_simple reads: config['scraping']['num_profiles'] and, in
\* scrape_profile, config['scraping']['max_retries'] (a KeyError there if
\* the key is absent).
SimpleParams(c) ==
    IF "max_retries" \in DOMAIN c.scraping
    THEN [num_profiles |-> c.scraping.num_profiles,
          max_retries |-> c.scraping.max_retries]
    ELSE [num_profiles |-> c.scraping.num_profiles]

\* How the session comes back to main(): it returned (a Ctrl+C or an
\* exception caught by its own handlers included), or an exception or a
\* Ctrl+C got out of the handlers.
RunOutcomes == {"completed", "interrupt_caught", "exception_caught", "raised",
                "interrupted"}

\* main() before the browser is started: dependency check (main.py only),
\* configuration loading, the "ready to start?" prompt.
PreludeSteps(drv) ==
    IF drv = "modular" THEN <<"validate_deps", "load_config", "confirm", "construct">>
                       ELSE <<"load_config", "confirm">>

FirstSetupStep(drv) == IF drv = "modular" THEN "setup_ocr" ELSE "start_browser"

\* The step after prelude step number k.
AfterPrelude(drv, k) ==
    IF k < Len(PreludeSteps(drv)) THEN PreludeSteps(drv)[k + 1] ELSE FirstSetupStep(drv)

StepIndex(drv, step) ==
    CHOOSE k \in 1..Len(PreludeSteps(drv)) : PreludeSteps(drv)[k] = step

\* scraper_simple.main indexes config['scraping']['num_profiles'] for its
\* overrides and its summary: without the section, or without the key and
\* without --profiles, that is a KeyError.
SimpleConfigUsable(c, args) ==
    /\ "scraping" \in DOMAIN c
    /\ "num_profiles" \in DOMAIN c.scraping \/ args.profiles # <<>>

\* The exit status when a prelude step stops the program: sys.exit(1) for
\* missing dependencies, an exception (main.py) or `return` (scraper_simple)
\* for a configuration that does not load, sys.exit(0)/return when the user
\* declines.
PreludeStop(drv, step) ==
    CASE step = "validate_deps" -> "1"
      [] step = "load_config" -> IF drv = "modular" THEN "1" ELSE "0"
      [] OTHER -> "0"

\* The process exit status for what travelled through the finally block:
\* sys.exit(1), main()'s except KeyboardInterrupt -> sys.exit(0), main()'s
\* except Exception -> sys.exit(1); scraper_simple has no such handlers.
ExitStatus(drv, pending) ==
    CASE pending = "none" -> "0"
      [] pending = "exit_1" -> "1"
      [] pending = "interrupt" -> IF drv = "modular" THEN "0" ELSE "traceback"
      [] OTHER -> IF drv = "modular" THEN "1" ELSE "traceback"

\* BrowserManager.quit: nothing to do without a driver; else driver.quit(),
\* whose exception is swallowed, and the reference is dropped.
BrowserAfterQuit(handle, state, quit_ok) ==
    IF handle /\ quit_ok THEN "closed" ELSE state

\* A step of main.py inside `try: ... finally: scraper.cleanup()` failed
\* (setup() returned False -> sys.exit(1)) or was interrupted; the same step
\* of scraper_simple.main runs before its try block.
LeaveStep(step, pending) ==
    /\ run_log' = Append(run_log, <<step, pending>>)
    /\ IF driver = "modular"
       THEN /\ run_pc' = "cleanup"
            /\ pending_exit' = pending
            /\ UNCHANGED exit_status
       ELSE /\ run_pc' = "exited"
            /\ exit_status' = ExitStatus(driver, pending)
            /\ UNCHANGED pending_exit

StepDone(step, next) ==
    /\ run_log' = Append(run_log, <<step, "ok">>)
    /\ run_pc' = next
    /\ UNCHANGED <<pending_exit, exit_status>>

RunInit ==
    /\ StorageIdle
    /\ OcrIdle
    /\ DriverIdle
    /\ ClassifyIdle
    /\ UrlIdle
    /\ PageIdle
    /\ driver \in Drivers
    /\ run_pc = PreludeSteps(driver)[1]
    /\ browser = "not_started"
    /\ browser_handle = FALSE
    /\ pending_exit = "none"
    /\ exit_status = "none"
    /\ quit_calls = 0
    /\ run_log = <<>>
    /\ cfg_file \in ConfigFiles
    /\ cli_args \in CliArgs
    /\ config = <<>>
    /\ params = <<>>

\* ConfigManager(args.config) and apply_cli_overrides / load_config, the
\* overrides and the configuration summary of scraper_simple.main.
LoadConfigStep ==
    /\ run_pc = "load_config"
    /\ IF driver = "modular"
       THEN /\ config' = <<ApplyCliOverrides(ValidateConfig(LoadConfig(cfg_file)), cli_args)>>
            /\ StepDone("load_config", AfterPrelude(driver, StepIndex(driver, run_pc)))
       ELSE IF cfg_file = <<>>
       THEN /\ run_log' = Append(run_log, <<run_pc, "stop">>)
            /\ run_pc' = "exited"
            /\ exit_status' = PreludeStop(driver, run_pc)
            /\ UNCHANGED <<pending_exit, config>>
       ELSE IF SimpleConfigUsable(cfg_file[1], cli_args)
       THEN /\ config' = <<ApplyCliOverrides(cfg_file[1], cli_args)>>
            /\ StepDone("load_config", AfterPrelude(driver, StepIndex(driver, run_pc)))
       ELSE /\ run_log' = Append(run_log, <<run_pc, "KeyError">>)
            /\ run_pc' = "exited"
            /\ exit_status' = "traceback"
            /\ UNCHANGED <<pending_exit, config>>
    /\ UNCHANGED <<driver, storageVars, ocrVars, driverVars, classifyVars, urlVars, pageVars, browser, browser_handle,
                   quit_calls, cfg_file, cli_args, params>>

\* scraper = TinderScraper(config_manager.get_full_config()).
Construct ==
    /\ driver = "modular"
    /\ run_pc = "construct"
    /\ params' = <<CoreParams(config[1])>>
    /\ StepDone("construct", FirstSetupStep(driver))
    /\ UNCHANGED <<driver, storageVars, ocrVars, driverVars, classifyVars, urlVars, pageVars, browser, browser_handle,
                   quit_calls, cfg_file, cli_args, config>>

\* One step of main() before the browser is started.
Prelude ==
    /\ \E k \in 1..Len(PreludeSteps(driver)), ok \in BOOLEAN :
         /\ run_pc = PreludeSteps(driver)[k]
         /\ run_pc \in {"validate_deps", "confirm"}
         /\ IF ok
            THEN StepDone(run_pc, AfterPrelude(driver, k))
            ELSE /\ run_log' = Append(run_log, <<run_pc, "stop">>)
                 /\ run_pc' = "exited"
                 /\ exit_status' = PreludeStop(driver, run_pc)
                 /\ UNCHANGED pending_exit
    /\ UNCHANGED <<driver, storageVars, ocrVars, driverVars, classifyVars, urlVars, pageVars, cfgVars, browser, browser_handle,
                   quit_calls>>

\* Ctrl+C before the browser is started: main.py exits 0 from its except
\* KeyboardInterrupt, scraper_simple ends with the traceback.
PreludeInterrupt ==
    /\ \E k \in 1..Len(PreludeSteps(driver)) : run_pc = PreludeSteps(driver)[k]
    /\ run_log' = Append(run_log, <<run_pc, "interrupt">>)
    /\ run_pc' = "exited"
    /\ exit_status' = ExitStatus(driver, "interrupt")
    /\ UNCHANGED <<driver, storageVars, ocrVars, driverVars, classifyVars, urlVars, pageVars, cfgVars, browser, browser_handle,
                   quit_calls, pending_exit>>

\* TinderScraper.setup: check_tesseract_installation.
CheckTesseract ==
    /\ driver = "modular"
    /\ run_pc = "setup_ocr"
    /\ \E ok \in BOOLEAN :
         IF ok THEN StepDone("setup_ocr", "start_browser")
               ELSE LeaveStep("setup_ocr", "exit_1")
    /\ UNCHANGED <<driver, storageVars, ocrVars, driverVars, classifyVars, urlVars, pageVars, cfgVars, browser, browser_handle,
                   quit_calls>>

\* _try_driver_installations / the webdriver.Chrome(...) calls of setup_driver.
StartBrowser ==
    /\ run_pc = "start_browser"
    /\ \E started \in BOOLEAN :
         IF started
         THEN /\ browser' = "running"
              /\ StepDone("start_browser", "configure")
         ELSE /\ UNCHANGED browser
              /\ LeaveStep("start_browser", IF driver = "modular" THEN "exit_1"
                                                                  ELSE "exception")
    /\ UNCHANGED <<driver, storageVars, ocrVars, driverVars, classifyVars, urlVars, pageVars, cfgVars, browser_handle, quit_calls>>

\* _configure_driver / execute_cdp_cmd, after which the driver is handed
\* over: `self.driver = driver` / `driver = setup_driver()`.
ConfigureDriver ==
    /\ run_pc = "configure"
    /\ \E ok \in BOOLEAN :
         IF ok
         THEN /\ browser_handle' = TRUE
              /\ StepDone("configure", "navigate")
         ELSE /\ UNCHANGED browser_handle
              /\ LeaveStep("configure", IF driver = "modular" THEN "exit_1"
                                                              ELSE "exception")
    /\ UNCHANGED <<driver, storageVars, ocrVars, driverVars, classifyVars, urlVars, pageVars, cfgVars, browser, quit_calls>>

\* navigate_to_tinder / driver.get("https://tinder.com/") and the login prompt.
NavigateToTinder ==
    /\ run_pc = "navigate"
    /\ \E ok \in BOOLEAN :
         IF ok
         THEN /\ StepDone("navigate", "run")
              /\ params' = IF driver = "simple" THEN <<SimpleParams(config[1])>> ELSE params
         ELSE /\ LeaveStep("navigate", IF driver = "modular" THEN "exit_1"
                                                                ELSE "exception")
              /\ UNCHANGED params
    /\ UNCHANGED <<driver, storageVars, ocrVars, driverVars, classifyVars, urlVars, pageVars, browser, browser_handle,
                   quit_calls, cfg_file, cli_args, config>>

\* scraper.run() / the try block of scraper_simple.main, whose handlers
\* catch everything raised in the loop.
RunSession ==
    /\ run_pc = "run"
    /\ \E out \in RunOutcomes :
         /\ driver = "simple" => out \notin {"raised", "interrupted"}
         /\ run_log' = Append(run_log, <<"run", out>>)
         /\ CASE driver = "simple" ->
                   run_pc' = "cleanup" /\ UNCHANGED pending_exit
              [] driver = "modular" /\ out \notin {"raised", "interrupted"} ->
                   run_pc' = "results" /\ UNCHANGED pending_exit
              [] OTHER ->
                   /\ run_pc' = "cleanup"
                   /\ pending_exit' = IF out = "raised" THEN "exception" ELSE "interrupt"
    /\ UNCHANGED <<driver, storageVars, ocrVars, driverVars, classifyVars, urlVars, pageVars, cfgVars, browser, browser_handle,
                   exit_status, quit_calls>>

\* main.py: the results are printed and the try block ends.
PrintResults ==
    /\ driver = "modular"
    /\ run_pc = "results"
    /\ StepDone("results", "cleanup")
    /\ UNCHANGED <<driver, storageVars, ocrVars, driverVars, classifyVars, urlVars, pageVars, cfgVars, browser, browser_handle,
                   quit_calls>>

\* Ctrl+C while main() is in one of the steps around the session.
UserInterrupt ==
    /\ run_pc \in {"setup_ocr", "start_browser", "configure", "navigate", "results"}
    /\ LeaveStep(run_pc, "interrupt")
    /\ UNCHANGED <<driver, storageVars, ocrVars, driverVars, classifyVars, urlVars, pageVars, cfgVars, browser, browser_handle,
                   quit_calls>>

\* finally: scraper.cleanup() -> BrowserManager.quit() / driver.quit() at the
\* end of scraper_simple.main's finally block; then the process exits.
Cleanup ==
    /\ run_pc = "cleanup"
    /\ \E quit_ok \in BOOLEAN :
         /\ browser' = BrowserAfterQuit(browser_handle, browser, quit_ok)
         /\ quit_calls' = IF browser_handle THEN quit_calls + 1 ELSE quit_calls
         /\ run_log' = Append(run_log, <<"cleanup", IF quit_ok THEN "ok" ELSE "quit_raised">>)
         /\ exit_status' =
              IF driver = "simple" /\ ~quit_ok THEN "traceback"
              ELSE ExitStatus(driver, pending_exit)
    /\ browser_handle' = (driver = "simple" /\ browser_handle)
    /\ run_pc' = "exited"
    /\ UNCHANGED <<driver, storageVars, ocrVars, driverVars, classifyVars, urlVars, pageVars, cfgVars, pending_exit>>

\* Ctrl+C in scraper_simple.main's finally block while the remaining
\* profiles are saved or the closing lines are printed, before driver.quit().
FinallyInterrupted ==
    /\ driver = "simple"
    /\ run_pc = "cleanup"
    /\ run_log' = Append(run_log, <<"cleanup", "interrupt">>)
    /\ run_pc' = "exited"
    /\ exit_status' = "traceback"
    /\ UNCHANGED <<driver, storageVars, ocrVars, driverVars, classifyVars, urlVars, pageVars, cfgVars, browser, browser_handle,
                   quit_calls, pending_exit>>

RunNext ==
    \/ LoadConfigStep
    \/ Construct
    \/ Prelude
    \/ PreludeInterrupt
    \/ FinallyInterrupted
    \/ CheckTesseract
    \/ StartBrowser
    \/ ConfigureDriver
    \/ NavigateToTinder
    \/ RunSession
    \/ PrintResults
    \/ UserInterrupt
    \/ Cleanup

RunSpec == RunInit /\ [][RunNext]_vars

\* C13: once the browser has been started, every way the run ends passes
\* through a cleanup step that calls quit on the browser before the process
\* exits.
C13_BrowserQuitOnEveryExit ==
    (run_pc = "exited" /\ browser # "not_started") => quit_calls >= 1

\* C18: the parameters the core uses in a session started from main.py
\* equal the values the loaded configuration holds at their dot paths,
\* command line overrides included; a built-in default is used only for a
\* key that is absent from the configuration.
C18_CoreUsesTheConfiguration ==
    (driver = "modular" /\ params # <<>>) =>
        /\ params[1].num_profiles = ConfigGet(config[1], "scraping", "num_profiles", 10)
        /\ params[1].max_retries = ConfigGet(config[1], "scraping", "max_retries", 3)

(***************************************************************************)
(* Classification of the page's text items: scrape_profile's category      *)
(* loop and DataExtractor._extract_profile_details.                        *)
(***************************************************************************)
MaxTexts == 3

\* The fixed category order of scrape_profile.
CategoryOrder ==
    <<"horoscopo", "educacion", "hijos", "vacunacion", "personalidad", "comunicacion",
      "amor">>

CategoryNames == {CategoryOrder[k] : k \in 1..Len(CategoryOrder)}

TextItems == {"Aries", "Abrazos", "Le gusta correr", "Yoga"}

\* config['categories'] with the given horoscopo and amor vocabularies.
Vocabulary(horoscopo, amor) ==
    [c \in CategoryNames |->
        IF c = "horoscopo" THEN horoscopo ELSE IF c = "amor" THEN amor ELSE {}]

Vocabularies ==
    {Vocabulary({"Aries"}, {}), Vocabulary({"Aries"}, {"Aries", "Abrazos"})}

\* A field value is a Python list or a string.
ListOf(items) == [list |-> items]

NA == [str |-> "NA"]

\* The position in CategoryOrder of the first category whose vocabulary has
\* the text, 0 if none has: the inner `for category ... break` loop.
FirstCategory(text, vocab) ==
    LET hits == {k \in 1..Len(CategoryOrder) : text \in vocab[CategoryOrder[k]]}
    IN IF hits = {} THEN 0 ELSE CHOOSE k \in hits : \A j \in hits : k <= j

\* classified_data[category] after the loop over extracted_texts.
ClassifiedAs(texts, vocab, category) ==
    LET Goes(t) == /\ FirstCategory(t, vocab) # 0
                   /\ CategoryOrder[FirstCategory(t, vocab)] = category
    IN SelectSeq(texts, Goes)

\* otros after the loop: every text no category took, once per occurrence.
Unclassified(texts, vocab) ==
    LET Left(t) == FirstCategory(t, vocab) = 0
    IN SelectSeq(texts, Left)

\* contenido_ya_recogido: the classified items, the interests (the other
\* extracted fields read "NA" here).
AlreadyCollected(texts, vocab, ints) ==
    {t \in TextItems : FirstCategory(t, vocab) # 0 /\ \E k \in 1..Len(texts) : texts[k] = t}
    \cup {ints[k] : k \in 1..Len(ints)}

\* otros = [item for item in otros if item not in contenido_ya_recogido]
OtrosAfterCleaning(texts, vocab, ints) ==
    LET Kept(t) == t \notin AlreadyCollected(texts, vocab, ints)
    IN SelectSeq(Unclassified(texts, vocab), Kept)

\* "Convertir listas vacias a NA".
NaIfEmpty(items) == IF items = <<>> THEN NA ELSE ListOf(items)

\* The classified fields of the record built by scrape_profile.
SimpleDetails(texts, vocab, ints) ==
    [f \in CategoryNames \cup {"otros", "intereses"} |->
        CASE f = "otros" -> ListOf(OtrosAfterCleaning(texts, vocab, ints))
          [] f = "intereses" -> ListOf(ints)
          [] OTHER -> NaIfEmpty(ClassifiedAs(texts, vocab, f))]

\* The same fields as _extract_profile_details leaves them: the category
\* fields and otros keep their initial values, only bio, intereses, altura
\* and distancia are ever assigned.
ModularDetails(texts, vocab, ints) ==
    [f \in CategoryNames \cup {"otros", "intereses"} |->
        CASE f = "otros" -> ListOf(<<>>)
          [] f = "intereses" -> ListOf(ints)
          [] OTHER -> NA]

ClassifyInit ==
    /\ StorageIdle
    /\ OcrIdle
    /\ DriverIdle
    /\ RunIdle
    /\ UrlIdle
    /\ PageIdle
    /\ driver \in Drivers
    /\ page_texts \in SeqsUpTo(TextItems, MaxTexts)
    /\ categories \in Vocabularies
    /\ interests \in {<<>>, <<"Yoga">>}
    /\ details = <<>>

\* scrape_profile: the classification and the cleaning of otros.
ClassifyTexts ==
    /\ driver = "simple"
    /\ details = <<>>
    /\ details' = <<SimpleDetails(page_texts, categories, interests)>>
    /\ UNCHANGED <<driver, storageVars, ocrVars, driverVars, runVars, cfgVars, urlVars, pageVars,
                   page_texts, categories, interests>>

\* DataExtractor._extract_profile_details.
ExtractProfileDetails ==
    /\ driver = "modular"
    /\ details = <<>>
    /\ details' = <<ModularDetails(page_texts, categories, interests)>>
    /\ UNCHANGED <<driver, storageVars, ocrVars, driverVars, runVars, cfgVars, urlVars, pageVars,
                   page_texts, categories, interests>>

ClassifyNext ==
    \/ ClassifyTexts
    \/ ExtractProfileDetails

ClassifySpec == ClassifyInit /\ [][ClassifyNext]_vars

\* The items of a field value that is a list; a string value has none.
ItemsOf(value) == IF "list" \in DOMAIN value THEN value.list ELSE <<>>

Occurrences(t, items) == Cardinality({k \in 1..Len(items) : items[k] = t})

\* C14: every collected text that is in some category vocabulary is found
\* in the record under the first category, in the fixed order, whose
\* vocabulary has it, under no other category, and not in otros.
C14_VocabularyItemsAreClassified ==
    details # <<>> =>
        \A k \in 1..Len(page_texts) :
            LET t == page_texts[k]
                InVocabulary(c) == t \in categories[CategoryOrder[c]]
            IN \A c \in 1..Len(CategoryOrder) :
                 (InVocabulary(c) /\ \A b \in 1..(c - 1) : ~InVocabulary(b)) =>
                    /\ Occurrences(t, ItemsOf(details[1][CategoryOrder[c]])) >= 1
                    /\ \A o \in 1..Len(CategoryOrder) :
                          o # c => Occurrences(t, ItemsOf(details[1][CategoryOrder[o]])) = 0
                    /\ Occurrences(t, ItemsOf(details[1]["otros"])) = 0

\* C15: every collected text that is in no vocabulary and equals no
\* classified or extracted value is in otros exactly once, however often
\* the page yields it.
C15_OtrosHoldsEachItemOnce ==
    details # <<>> =>
        \A k \in 1..Len(page_texts) :
            LET t == page_texts[k]
            IN ((\A c \in CategoryNames : t \notin categories[c])
                  /\ (\A j \in 1..Len(interests) : interests[j] # t)) =>
                 Occurrences(t, ItemsOf(details[1]["otros"])) = 1

(***************************************************************************)
(* Image-URL discovery: DataExtractor._extract_image_urls and the loop of  *)
(* scrape_profile.  The URLs are those that pass the filter of the scan    *)
(* (".webp" in the URL, more than 250 characters).                         *)
(***************************************************************************)
MaxScrolls == 2

Urls == {"u1", "u2"}

\* The scraping section of the configuration with both loop bounds set to n:
\* scroll_attempts is the key DataExtractor asks for, max_scrolls_sin_cambios
\* the one scraper_simple reads.
ScrollConfig(n) == [scraping |-> [scroll_attempts |-> n, max_scrolls_sin_cambios |-> n]]

\* The bound the configuration holds for this driver.
ConfiguredScrolls(drv, c) ==
    IF drv = "modular" THEN c.scraping.scroll_attempts
    ELSE c.scraping.max_scrolls_sin_cambios

\* The bound the loop uses: self.config.get("scraping.scroll_attempts", 3) on
\* the dict handed to TinderScraper, config['scraping'][...] in scraper_simple.
ScrollBound(drv, c) ==
    IF drv = "modular" THEN DictGet(c, "scraping.scroll_attempts", 3)
    ELSE c.scraping.max_scrolls_sin_cambios

\* urls_found.update(new_urls_in_iteration)
UrlsAfter(found, new) == found \cup new

\* The counter after a scan that added the set new.
CounterAfter(counter, new) == IF new # {} THEN 0 ELSE counter + 1

\* Whether the iteration presses the scroll key after its scan: always in
\* scraper_simple, only while the loop is to go on in DataExtractor.
Scrolls(drv, counter, bound) == drv = "simple" \/ counter < bound

UrlInit ==
    /\ StorageIdle
    /\ OcrIdle
    /\ DriverIdle
    /\ ProcessIdle
    /\ ClassifyIdle
    /\ PageIdle
    /\ driver \in Drivers
    /\ cfg_file = <<>>
    /\ cli_args = [profiles |-> <<>>]
    /\ params = <<>>
    /\ \E n \in 1..MaxScrolls : config = <<ScrollConfig(n)>>
    /\ discoverable \in SUBSET Urls
    /\ max_scrolls = ScrollBound(driver, config[1])
    /\ urls_found = {}
    /\ scrolls_without_changes = 0
    /\ scan_log = <<[scans |-> 0, raised |-> FALSE, shown |-> {}]>>
    /\ url_pc = "loop"

\* One iteration of the while loop whose scan returns: the page shows some of
\* the discoverable URLs; the scroll that follows may raise, which breaks.
ScanAndScroll ==
    /\ url_pc = "loop"
    /\ scrolls_without_changes < max_scrolls
    /\ \E shown \in SUBSET discoverable, scroll_raises \in BOOLEAN :
         LET new == shown \ urls_found
             counter == CounterAfter(scrolls_without_changes, new)
             raised == scroll_raises /\ Scrolls(driver, counter, max_scrolls)
         IN /\ urls_found' = UrlsAfter(urls_found, new)
            /\ scrolls_without_changes' = counter
            /\ scan_log' = <<[scans |-> scan_log[1].scans + 1, raised |-> raised,
                              shown |-> scan_log[1].shown \cup shown]>>
            /\ url_pc' = IF raised \/ counter >= max_scrolls THEN "done" ELSE "loop"
    /\ UNCHANGED <<driver, storageVars, ocrVars, driverVars, runVars, cfgVars, classifyVars, pageVars,
                   discoverable, max_scrolls>>

\* The scan itself raises (find_elements, get_attribute): except, break.
ScanRaises ==
    /\ url_pc = "loop"
    /\ scrolls_without_changes < max_scrolls
    /\ scan_log' = <<[scan_log[1] EXCEPT !.scans = @ + 1, !.raised = TRUE]>>
    /\ url_pc' = "done"
    /\ UNCHANGED <<driver, storageVars, ocrVars, driverVars, runVars, cfgVars, classifyVars, pageVars,
                   discoverable, max_scrolls, urls_found, scrolls_without_changes>>

UrlNext ==
    \/ ScanAndScroll
    \/ ScanRaises

UrlSpec == UrlInit /\ [][UrlNext]_vars

\* C16: the discovery loop is over exactly when the configured number of
\* consecutive scans has added nothing, and the set it then returns is the
\* set of discoverable URLs.
C16_DiscoveryConvergesToTheFixedSet ==
    LET configured == ConfiguredScrolls(driver, config[1])
    IN /\ (url_pc = "loop" => scrolls_without_changes < configured)
       /\ (url_pc = "done" =>
              /\ scrolls_without_changes = configured
              /\ urls_found = discoverable)

\* C16, the part about the accumulated set: no step of the loop removes a URL
\* from it.
C16_NoUrlIsEverRemoved == [][urls_found \subseteq urls_found']_vars

(***************************************************************************)
(* Closing overlays: DataExtractor._close_popups,                          *)
(* BrowserManager.close_popups and cerrar_ventanas_emergentes.             *)
(***************************************************************************)

OverlayFunctions == {"_close_popups", "close_popups", "cerrar_ventanas_emergentes"}

\* The lengths of the selector lists each function walks, in order:
\* popup_selectors, or cerrar_buttons followed by button_selectors.
TargetLists(fn) ==
    CASE fn = "_close_popups" -> <<6>>
      [] fn = "close_popups" -> <<7>>
      [] OTHER -> <<4, 6>>

\* What trying one target does: find_element raises, is_displayed() is
\* False, click() raises, the click and the sleep go through, or a Ctrl+C
\* arrives in the sleep after the click; every exception lands in the bare
\* `except: continue`.
OverlayOutcomes == {"not_found", "hidden", "click_raises", "clicked", "clicked_interrupted"}

Clicks(outcome) == outcome \in {"clicked", "clicked_interrupted"}

\* Whether the loop is left after this target: `break` follows the sleep in
\* every loop but the cerrar_buttons loop, which has none.
BreaksAfter(fn, list, outcome) ==
    outcome = "clicked" /\ ~(fn = "cerrar_ventanas_emergentes" /\ list = 1)

OverlayInit ==
    /\ StorageIdle
    /\ OcrIdle
    /\ DriverIdle
    /\ RunIdle
    /\ ClassifyIdle
    /\ UrlIdle
    /\ mt_pc = "idle"
    /\ match_close_attempts = 0
    /\ mt_streak = 0
    /\ mt_reloads = 0
    /\ mt_passes = 0
    /\ nm_pc = "idle"
    /\ selector_finds = <<>>
    /\ name = <<>>
    /\ age = <<>>
    /\ ov_fn \in OverlayFunctions
    /\ driver = IF ov_fn = "cerrar_ventanas_emergentes" THEN "simple" ELSE "modular"
    /\ ov_pc = "first"
    /\ ov_index = 1
    /\ ov_log = <<[clicked |-> <<>>, after_click |-> FALSE]>>

\* One turn of the selector loop: the try block on the next target.
TryTarget ==
    /\ ov_pc \in {"first", "second"}
    /\ \E outcome \in OverlayOutcomes :
         LET list == IF ov_pc = "first" THEN 1 ELSE 2
             lists == TargetLists(ov_fn)
             last == ov_index >= lists[list]
         IN /\ ov_log' =
                 <<[clicked |-> IF Clicks(outcome)
                                THEN Append(ov_log[1].clicked, <<list, ov_index>>)
                                ELSE ov_log[1].clicked,
                    after_click |-> ov_log[1].after_click \/ ov_log[1].clicked # <<>>]>>
            /\ IF BreaksAfter(ov_fn, list, outcome) \/ (last /\ list = Len(lists))
               THEN ov_pc' = "done" /\ UNCHANGED ov_index
               ELSE IF last
                    THEN ov_pc' = "second" /\ ov_index' = 1
                    ELSE ov_index' = ov_index + 1 /\ UNCHANGED ov_pc
    /\ UNCHANGED <<driver, storageVars, ocrVars, driverVars, runVars, cfgVars, classifyVars,
                   urlVars, matchVars, nameVars, ov_fn>>

OverlayNext == TryTarget

OverlaySpec == OverlayInit /\ [][OverlayNext]_vars

\* C23: one call clicks at most one element and tries no target after a
\* click.
C23_AtMostOneClick ==
    ov_pc # "idle" => (Len(ov_log[1].clicked) <= 1 /\ ~ov_log[1].after_click)

(***************************************************************************)
(* The match overlay at the head of a pipeline pass: the `while True` loop *)
(* of scrape_profile and DataExtractor._prepare_profile_page.              *)
(***************************************************************************)
MaxPasses == 5

MaxReloads == 2

\* if match_close_attempts >= 4: reload
MatchCloseLimit == 4

ClickOutcomes == {"clicked", "raises"}

\* The branch of scrape_profile that closed an overlay: the counter goes up;
\* at the limit driver.refresh() is called and, if it returns, the counter is
\* reset and the loop restarted.  `escaped` says the branch was left by an
\* exception (the click or the refresh raised), which the enclosing bare
\* except catches.
CloseBranch(count, click, refresh_ok) ==
    IF click = "raises"
    THEN [count |-> count, clicks |-> 0, reloads |-> 0, escaped |-> TRUE,
          restart |-> FALSE]
    ELSE IF count + 1 >= MatchCloseLimit
         THEN IF refresh_ok
              THEN [count |-> 0, clicks |-> 1, reloads |-> 1, escaped |-> FALSE,
                    restart |-> TRUE]
              ELSE [count |-> count + 1, clicks |-> 1, reloads |-> 1, escaped |-> TRUE,
                    restart |-> FALSE]
         ELSE [count |-> count + 1, clicks |-> 1, reloads |-> 0, escaped |-> FALSE,
               restart |-> FALSE]

\* The overlay part of one turn of `while True`: the close button, in its
\* except the alternative button, in its except the image and VAMOS ALLA
\* buttons followed by match_close_attempts = 0.
ClosePass(count, first, refresh1, alt, refresh2) ==
    LET a == CloseBranch(count, first, refresh1)
        b == CloseBranch(a.count, alt, refresh2)
    IN IF ~a.escaped
       THEN [count |-> a.count, clicks |-> a.clicks, reloads |-> a.reloads,
             restart |-> a.restart, reset |-> FALSE]
       ELSE IF ~b.escaped
            THEN [count |-> b.count, clicks |-> a.clicks + b.clicks,
                  reloads |-> a.reloads + b.reloads, restart |-> b.restart,
                  reset |-> FALSE]
            ELSE [count |-> 0, clicks |-> a.clicks + b.clicks,
                  reloads |-> a.reloads + b.reloads, restart |-> FALSE, reset |-> TRUE]

\* The overlays closed in a row: a reload or a pass that closed none starts
\* the count again.
StreakAfter(streak, clicks, reloads) ==
    IF reloads > 0 \/ clicks = 0 THEN 0 ELSE streak + clicks

MatchInit ==
    /\ StorageIdle
    /\ OcrIdle
    /\ DriverIdle
    /\ RunIdle
    /\ ClassifyIdle
    /\ UrlIdle
    /\ ov_fn = "none"
    /\ ov_pc = "idle"
    /\ ov_index = 0
    /\ ov_log = <<>>
    /\ nm_pc = "idle"
    /\ selector_finds = <<>>
    /\ name = <<>>
    /\ age = <<>>
    /\ driver \in Drivers
    /\ mt_pc = "popups"
    /\ match_close_attempts = 0
    /\ mt_streak = 0
    /\ mt_reloads = 0
    /\ mt_passes = 0

\* scrape_profile: the overlay part of one turn of the loop.
CloseMatchOverlay ==
    /\ driver = "simple"
    /\ mt_pc = "popups"
    /\ \E first \in ClickOutcomes, refresh1 \in BOOLEAN, alt \in ClickOutcomes,
          refresh2 \in BOOLEAN :
         LET pass == ClosePass(match_close_attempts, first, refresh1, alt, refresh2)
         IN /\ mt_reloads + pass.reloads <= MaxReloads
            /\ match_close_attempts' = pass.count
            /\ mt_reloads' = mt_reloads + pass.reloads
            /\ mt_streak' = StreakAfter(mt_streak, pass.clicks, pass.reloads)
            /\ mt_pc' = IF pass.restart THEN "popups" ELSE "read_name"
    /\ UNCHANGED <<driver, storageVars, ocrVars, driverVars, runVars, cfgVars, classifyVars,
                   urlVars, overlayVars, nameVars, mt_passes>>

\* _prepare_profile_page: _close_popups closes the match overlay (one of its
\* first two selectors) or does not; there is no counter and no reload.
ClosePopups ==
    /\ driver = "modular"
    /\ mt_pc = "popups"
    /\ \E closed \in BOOLEAN :
         mt_streak' = StreakAfter(mt_streak, IF closed THEN 1 ELSE 0, 0)
    /\ mt_pc' = "read_name"
    /\ UNCHANGED <<driver, storageVars, ocrVars, driverVars, runVars, cfgVars, classifyVars,
                   urlVars, overlayVars, nameVars, match_close_attempts, mt_reloads,
                   mt_passes>>

\* The pipeline goes on to read name and age; without a name the pass is
\* repeated (scrape_profile) or the next attempt made (extract_profile_data).
ReadNameAndAge ==
    /\ mt_pc = "read_name"
    /\ mt_passes' = mt_passes + 1
    /\ \E named \in BOOLEAN :
         mt_pc' = IF named \/ mt_passes + 1 >= MaxPasses THEN "done" ELSE "popups"
    /\ UNCHANGED <<driver, storageVars, ocrVars, driverVars, runVars, cfgVars, classifyVars,
                   urlVars, overlayVars, nameVars, match_close_attempts, mt_streak,
                   mt_reloads>>

MatchNext ==
    \/ CloseMatchOverlay
    \/ ClosePopups
    \/ ReadNameAndAge

MatchSpec == MatchInit /\ [][MatchNext]_vars

\* C24: when the pipeline goes on to read name and age, fewer than four
\* match overlays have been closed in a row since the last reload (the
\* counter is between 0 and 3).
C24_StreakBelowLimitAtNameRead ==
    mt_pc = "read_name" =>
        /\ mt_streak < MatchCloseLimit
        /\ match_close_attempts \in 0..(MatchCloseLimit - 1)

\* scrape_profile's own counter is between 0 and 3 whenever name and age are
\* read.
SimpleCounterBelowLimit ==
    (driver = "simple" /\ mt_pc = "read_name") =>
        match_close_attempts \in 0..(MatchCloseLimit - 1)

(***************************************************************************)
(* Name and age: DataExtractor._extract_basic_info and the selector blocks *)
(* of scrape_profile.  A text is the sequence of its characters.           *)
(***************************************************************************)

IsBlank(c) == c = " "

RECURSIVE LStrip(_)
LStrip(t) == IF t # <<>> /\ IsBlank(Head(t)) THEN LStrip(Tail(t)) ELSE t

RECURSIVE RStrip(_)
RStrip(t) ==
    IF t # <<>> /\ IsBlank(t[Len(t)]) THEN RStrip(SubSeq(t, 1, Len(t) - 1)) ELSE t

\* str.strip()
Strip(t) == RStrip(LStrip(t))

RECURSIVE TakeToken(_)
TakeToken(t) ==
    IF t = <<>> \/ IsBlank(Head(t)) THEN <<>> ELSE <<Head(t)>> \o TakeToken(Tail(t))

\* str.split(): whether it returns any token, and the first one.
HasToken(t) == LStrip(t) # <<>>

FirstToken(t) == TakeToken(LStrip(t))

\* get_attribute("aria-label") of an element that has no such attribute.
NoAttribute == <<"<None>">>

\* What the page holds for the two name selectors and the age selector:
\* <<>> when find_element raises, else the element's text or aria-label.
SelectorFinds ==
    [s1 : {<<>>} \cup {<<t>> : t \in {<<>>, <<" ">>, <<"A", "n", "a">>}},
     s2 : {<<>>} \cup {<<l>> : l \in {NoAttribute, <<>>, <<" ">>,
                                      <<"E", "v", "a", " ", "2", "5">>}},
     age : {<<>>} \cup {<<t>> : t \in {<<>>, <<" ", "2", "3">>}}]

\* _extract_basic_info: the loop over name_selectors.  A selector that
\* raises (element missing, IndexError of split()[0]) leaves name as it is;
\* the loop goes on while name is empty.
ModularName(f) ==
    LET first == IF f.s1 = <<>> THEN <<>> ELSE Strip(f.s1[1])
        second == IF f.s2 = <<>> THEN first
                  ELSE IF f.s2[1] = NoAttribute \/ f.s2[1] = <<>> THEN <<>>
                  ELSE IF HasToken(f.s2[1]) THEN FirstToken(f.s2[1])
                  ELSE first
    IN IF first # <<>> THEN first ELSE second

\* scrape_profile: the second selector is tried in the except of the first,
\* that is only when the first one raised.
SimpleName(f) ==
    IF f.s1 # <<>> THEN Strip(f.s1[1])
    ELSE IF f.s2 = <<>> \/ f.s2[1] = NoAttribute \/ ~HasToken(f.s2[1]) THEN <<>>
    ELSE FirstToken(f.s2[1])

\* The age selector, the same in both.
AgeOf(f) == IF f.age = <<>> THEN <<>> ELSE Strip(f.age[1])

NameInit ==
    /\ StorageIdle
    /\ OcrIdle
    /\ DriverIdle
    /\ RunIdle
    /\ ClassifyIdle
    /\ UrlIdle
    /\ ov_fn = "none"
    /\ ov_pc = "idle"
    /\ ov_index = 0
    /\ ov_log = <<>>
    /\ mt_pc = "idle"
    /\ match_close_attempts = 0
    /\ mt_streak = 0
    /\ mt_reloads = 0
    /\ mt_passes = 0
    /\ driver \in Drivers
    /\ selector_finds \in SelectorFinds
    /\ nm_pc = "name"
    /\ name = <<>>
    /\ age = <<>>

\* The name selectors.
ExtractName ==
    /\ nm_pc = "name"
    /\ name' = IF driver = "modular" THEN ModularName(selector_finds)
               ELSE SimpleName(selector_finds)
    /\ nm_pc' = "age"
    /\ UNCHANGED <<driver, storageVars, ocrVars, driverVars, runVars, cfgVars, classifyVars,
                   urlVars, overlayVars, matchVars, selector_finds, age>>

\* The age selector, then `if not name: continue` / `if name: ... else`.
ExtractAge ==
    /\ nm_pc = "age"
    /\ age' = AgeOf(selector_finds)
    /\ nm_pc' = IF name = <<>> THEN "restart" ELSE "screenshot"
    /\ UNCHANGED <<driver, storageVars, ocrVars, driverVars, runVars, cfgVars, classifyVars,
                   urlVars, overlayVars, matchVars, selector_finds, name>>

NameNext ==
    \/ ExtractName
    \/ ExtractAge

NameSpec == NameInit /\ [][NameNext]_vars

\* What a strategy yields: the stripped text of the first selector's
\* element, the first word of the second selector's aria-label; nothing when
\* the element or the label is missing.
YieldOfFirst ==
    IF selector_finds.s1 = <<>> THEN <<>> ELSE Strip(selector_finds.s1[1])

YieldOfSecond ==
    IF selector_finds.s2 = <<>> \/ selector_finds.s2[1] = NoAttribute THEN <<>>
    ELSE FirstToken(selector_finds.s2[1])

\* C25: the name is what the first strategy, in order, with a non-empty
\* yield produced, and empty if neither has one; the attempt is restarted
\* exactly when the name is empty.
C25_NameFromFirstNonEmptyStrategy ==
    nm_pc \in {"age", "restart", "screenshot"} =>
        /\ name = IF YieldOfFirst # <<>> THEN YieldOfFirst ELSE YieldOfSecond
        /\ nm_pc = "restart" => name = <<>>
        /\ nm_pc = "screenshot" => name # <<>>

====
